---- MODULE Spec2Model ----
(***************************************************************************)
(* Warnings-Dashboard: the watch-mode process of cmd/main.go.              *)
(*                                                                         *)
(* Two goroutines touch the output directory:                              *)
(*   - the main goroutine: the initial generateWarningsHTML, then          *)
(*     StartPoller's synchronous first pollAndWrite, then the ticker loop  *)
(*     that regenerates the HTML page;                                     *)
(*   - the background goroutine StartPoller launches: sleep, pollAndWrite, *)
(*     forever.                                                            *)
(* Files are sequences of JSON tokens, so that a truncated or partly       *)
(* written file differs from a complete one.  Go slices keep the           *)
(* distinction between nil and empty, which json.Marshal turns into null   *)
(* and [].                                                                 *)
(***************************************************************************)
EXTENDS Integers, Sequences, FiniteSets, TLC

\* ------------------------------------------------------------------ bounds
\* The wall clock takes the values 0..MaxTime.
MaxTime == 1
\* The per-cycle request log keeps the first MaxPages alert requests.
MaxPages == 2
\* A cycle accumulates at most MaxAlerts alerts (upstream serves no more).
MaxAlerts == 3

VARIABLES
    now,         \* the latest value time.Now() returned
    outputFile,  \* the --output flag
    watchMode,   \* the --watch flag
    files,       \* the output directory: path -> file
    mainpc,      \* position of the main goroutine
    genWarnings, \* generateWarningsHTML's local "warnings"
    genData,     \* GenerateWarningsJSON's local "jsonData" / the HTML buffer
    bgStarted,   \* StartPoller's goroutine has been launched
    pw,          \* pollAndWrite's locals, per goroutine
    log,         \* history: the alert requests of the running cycle, per goroutine
    reqs,        \* history: number of alert requests of the running cycle
    entry,       \* history: the target file when the running cycle began
    entryTmp,    \* history: a temp file existed when the running cycle began
    mcdLog,      \* history: the discussion features and text answers of the running cycle
    everFailed,  \* history: some background cycle returned an error
    served,      \* history: the features the alert feed served the running FetchWarnings
    rawText,     \* the page: the fullText handed to parseMCDText
    parsed       \* the page: what parseMCDText returned for it

vars == << now, outputFile, watchMode, files, mainpc, genWarnings, genData,
           bgStarted, pw, log, reqs, entry, everFailed, mcdLog, served, rawText, parsed,
           entryTmp >>

\* ------------------------------------------------------------------ slices
\* A Go slice: nil, or a (possibly empty) sequence of elements.
NilSlice == [isnil |-> TRUE, elems |-> <<>>]

MakeSlice(s) == [isnil |-> FALSE, elems |-> s]

EmptySlice == MakeSlice(<<>>)

\* append(s, x): the result is never nil.
AppendSlice(s, x) == MakeSlice(Append(s.elems, x))

\* ------------------------------------------------------------------- files
NoFile == [exists |-> FALSE, bytes |-> <<>>]

FileOf(b) == [exists |-> TRUE, bytes |-> b]

\* The first n tokens of b: what a write that stopped early leaves behind.
Prefix(b, n) == SubSeq(b, 1, n)

\* ------------------------------------------------------------------- paths
\* A path is a directory and a file name split at its dots.
\* The default of the --output flag: "warnings.html".
DefaultOutputFile == [dir |-> ".", name |-> <<"warnings", ".html">>]

\* strings.Replace(s, old, new, 1) on the name's parts.
RECURSIVE ReplaceFirst(_, _, _)
ReplaceFirst(s, old, new) ==
    IF s = <<>> THEN <<>>
    ELSE IF Head(s) = old THEN <<new>> \o Tail(s)
    ELSE <<Head(s)>> \o ReplaceFirst(Tail(s), old, new)

\* filepath.Join(filepath.Dir(outputFile), "warnings.json")
JsonPath(out) == [dir |-> out.dir, name |-> <<"warnings", ".json">>]

\* tmp := outputPath + ".tmp"
TmpPath(p) == [dir |-> p.dir, name |-> p.name \o <<".tmp">>]

\* jsonPath := strings.Replace(outputPath, ".html", ".json", 1)
HtmlJsonPath(out) == [dir |-> out.dir, name |-> ReplaceFirst(out.name, ".html", ".json")]

\* The files of the output directory the process touches.
Paths ==
    { DefaultOutputFile, JsonPath(DefaultOutputFile),
      TmpPath(JsonPath(DefaultOutputFile)), HtmlJsonPath(DefaultOutputFile) }

\* ------------------------------------------------------------------- clock
Times == 0..MaxTime

\* The clock readings the whole-process specification draws from.
FewTimes == {0, 1}

\* time.Now(): a reading of T no earlier than the latest value observed.
Later(t, T) == { u \in T : u >= t }

\* time.Parse(time.RFC3339, s): the instants upstream uses, in epoch seconds;
\* every other string is a parse error.
ParseRFC3339(s) ==
    CASE s = "1970-01-01T00:00:00Z" -> [ok |-> TRUE, t |-> 0]
      [] s = "1970-01-01T00:00:02Z" -> [ok |-> TRUE, t |-> 2]
      [] OTHER -> [ok |-> FALSE, t |-> 0]

\* --------------------------------------------------------- alert upstream
nwsAlertsURL ==
    "https://api.weather.gov/alerts/active?status=actual&event=Severe%20Thunderstorm%20Warning,Tornado%20Warning,Tornado%20Watch,Severe%20Thunderstorm%20Watch,Special%20Weather%20Statement"

\* The alert features upstream can serve.
\* f.Geometry is a pointer: nil, or a geometry object.
NilGeometry == [isnil |-> TRUE, type |-> "", coordinates |-> ""]

Polygon(c) == [isnil |-> FALSE, type |-> "Polygon", coordinates |-> c]

\* A JSON list of strings as upstream sent it: a list, null, or left out.
RawList(items) == <<"array", items>>

RawNull == <<"null">>

RawMissing == <<"missing">>

\* The geocode object as upstream sent it, or left out altogether.
Geocode(ugc, same) == [present |-> TRUE, UGC |-> ugc, SAME |-> same]

NoGeocode == [present |-> FALSE, UGC |-> RawMissing, SAME |-> RawMissing]

Tor == [id |-> "tor", event |-> "Tornado Warning", severity |-> "Extreme",
        status |-> "Actual", expires |-> "1970-01-01T00:00:02Z",
        geocode |-> Geocode(RawList(<<"TXC001">>), RawList(<<"048001">>)),
        geometry |-> Polygon("ring tor")]

Svr == [id |-> "svr", event |-> "Severe Thunderstorm Warning", severity |-> "Severe",
        status |-> "Actual", expires |-> "1970-01-01T00:00:00Z",
        geocode |-> Geocode(RawList(<<>>), RawNull),
        geometry |-> NilGeometry]

Exe == [id |-> "exe", event |-> "Tornado Warning", severity |-> "Extreme",
        status |-> "Exercise", expires |-> "",
        geocode |-> Geocode(RawList(<<"TXC003">>), RawList(<<"048003">>)),
        geometry |-> Polygon("ring exe")]

Sws == [id |-> "sws", event |-> "Special Weather Statement", severity |-> "Minor",
        status |-> "Actual", expires |-> "until further notice",
        geocode |-> Geocode(RawNull, RawMissing),
        geometry |-> Polygon("ring sws")]

\* An alert delivered with county codes only: no geometry.
Nox == [id |-> "nox", event |-> "Tornado Watch", severity |-> "Unknown",
        status |-> "Actual", expires |-> "",
        geocode |-> NoGeocode,
        geometry |-> NilGeometry]

AlertPages == { <<>>, <<Tor, Svr, Exe>>, <<Sws, Nox>>, <<Exe>> }

\* The "pagination" object: absent (nil), or with a next link.
NoPagination == [present |-> FALSE, next |-> ""]

Paginations ==
    { NoPagination } \cup { [present |-> TRUE, next |-> n] : n \in {"", "page2", "page3"} }

\* What one GET of the alert feed can come to: a transport error, a body
\* read error, a non-200 status, a body that is no JSON, or a decoded page.
AlertErrors == { [kind |-> k, features |-> <<>>, pagination |-> NoPagination] :
                   k \in {"transport", "read", "status", "decode"} }

AlertOKs == { [kind |-> "ok", features |-> p, pagination |-> g] :
                p \in AlertPages, g \in Paginations }

AlertResponses == AlertErrors \cup AlertOKs

\* The responses the whole-process specification draws from.
FewAlertResponses ==
    { r \in AlertResponses :
        \/ r.kind = "transport"
        \/ r.kind = "ok" /\ r.features = <<Tor, Svr, Exe>> /\ r.pagination = NoPagination
        \/ r.kind = "ok" /\ r.features = <<>> /\ r.pagination.next = "page2" }

\* -------------------------------------------------------- fetchAllAlerts
\* json.Unmarshal into a []string field: a list gives a slice, null or a
\* missing key leaves it nil.
DecodeStrings(raw) == IF raw[1] = "array" THEN MakeSlice(raw[2]) ELSE NilSlice

\* p.Geocode.UGC and p.Geocode.SAME: Geocode is a struct, zero when left out.
GeocodeUGC(f) == IF f.geocode.present THEN DecodeStrings(f.geocode.UGC) ELSE NilSlice

GeocodeSAME(f) == IF f.geocode.present THEN DecodeStrings(f.geocode.SAME) ELSE NilSlice

\* if ugc == nil { ugc = []string{} }
NonNil(sl) == IF sl.isnil THEN EmptySlice ELSE sl

\* A variant that copies the decoded lists as they are.
ToWarningJSONKeepNil(f) ==
    [id |-> f.id, type |-> f.event, severity |-> f.severity, expiresTime |-> f.expires,
     ugc |-> GeocodeUGC(f), same |-> GeocodeSAME(f), geometry |-> f.geometry]

\* w := WarningJSON{...}; if f.Geometry != nil { w.Geometry = &GeoGeometry{...} }
ToWarningJSON(f) ==
    [id |-> f.id, type |-> f.event, severity |-> f.severity, expiresTime |-> f.expires,
     ugc |-> NonNil(GeocodeUGC(f)), same |-> NonNil(GeocodeSAME(f)),
     geometry |-> f.geometry]

\* A variant that compares the wrong way round: After for Before.
ExpiredIfAfter(f, tnow) ==
    /\ f.expires # ""
    /\ ParseRFC3339(f.expires).ok
    /\ ParseRFC3339(f.expires).t > tnow

\* "Skip already-expired alerts": the expiry is present, parses, and is before now.
IsExpiredAlready(f, tnow) ==
    /\ f.expires # ""
    /\ ParseRFC3339(f.expires).ok
    /\ ParseRFC3339(f.expires).t < tnow

\* A variant without the status test.
AppendAnyStatus(all, f, tnow) ==
    IF IsExpiredAlready(f, tnow) THEN all
    ELSE AppendSlice(all, ToWarningJSON(f))

\* The body of "for _, f := range apiResp.Features" for one feature.
AppendFeature(all, f, tnow) ==
    IF f.status # "Actual" THEN all
    ELSE IF IsExpiredAlready(f, tnow) THEN all
    ELSE AppendSlice(all, ToWarningJSON(f))

\* The loop over one page's features, in order.
RECURSIVE ProcessFeatures(_, _, _)
ProcessFeatures(all, features, tnow) ==
    IF features = <<>> THEN all
    ELSE ProcessFeatures(AppendFeature(all, Head(features), tnow), Tail(features), tnow)

\* A variant that never follows a next link.
NextURLNever(pagination) == ""

\* The url of the next iteration: pagination.next, or "" to leave the loop.
NextURL(pagination) ==
    IF pagination.present /\ pagination.next # "" THEN pagination.next ELSE ""

\* if all == nil { all = []WarningJSON{} }
NormalizeAll(all) == IF all.isnil THEN EmptySlice ELSE all

\* ---------------------------------------------------- discussion upstream
\* A name is a sequence of characters.
MD91 == [name |-> <<"M", "D", " ", "0", "0", "9", "1">>, popupInfo |-> "popup 91",
         fileDate |-> 91, geometry |-> Polygon("ring 91")]

MD92 == [name |-> <<"M", "D", " ", "0", "0", "9", "2">>, popupInfo |-> "popup 92",
         fileDate |-> 92, geometry |-> Polygon("ring 92")]

\* A name without a digit and without the prefix.
MDNoDigit == [name |-> <<"S", "P", "C">>, popupInfo |-> "popup spc",
              fileDate |-> 93, geometry |-> Polygon("ring 93")]

\* A name that is the prefix alone.
MDBare == [name |-> <<"M", "D", " ">>, popupInfo |-> "popup bare",
           fileDate |-> 94, geometry |-> Polygon("ring 94")]

\* A feature without geometry.
MDNoGeometry == [name |-> <<"M", "D", " ", "0", "0", "9", "5">>, popupInfo |-> "popup 95",
                 fileDate |-> 95, geometry |-> NilGeometry]

GeoFeatureLists == { <<>>, <<MD91>> }

\* The MapServer query: a transport error or timeout, a non-200 status, a
\* body read error, a body that is no JSON, or the decoded features.
GeoResponses ==
    { [kind |-> k, features |-> <<>>] : k \in {"transport", "status", "read", "decode"} }
    \cup { [kind |-> "ok", features |-> l] : l \in GeoFeatureLists }

FewGeoResponses == { g \in GeoResponses : g.kind = "transport" \/ g.features = <<MD91>> }

\* More answers of the MapServer query, for the discussions on their own.
MoreGeoFeatureLists ==
    { <<>>, <<MD91>>, <<MD91, MD92>>, <<MDNoDigit>>, <<MDBare, MD91>>, <<MDNoGeometry, MD92>>,
      <<MDNoGeometry>>, <<MD92, MDNoGeometry, MD91>> }

MoreGeoResponses ==
    { [kind |-> k, features |-> <<>>] : k \in {"transport", "status"} }
    \cup { [kind |-> "ok", features |-> l] : l \in MoreGeoFeatureLists }

\* A discussion's text page: its body is a sequence of markup tokens.
PreBody == << "<html>", "<pre>", "Mesoscale Discussion 0091", "<br>", "<b>",
              "AT&amp;T", "</pre>", "</html>" >>

NoPreBody == << "<html>", "Not here", "</html>" >>

TextResponses ==
    { [kind |-> k, body |-> <<>>] : k \in {"transport", "status", "read"} }
    \cup { [kind |-> "ok", body |-> b] : b \in {PreBody, NoPreBody} }

FewTextResponses == { x \in TextResponses : x.kind = "status" }

\* ----------------------------------------------------------- fetchMCDText
\* The tokens after the first "<pre>", up to the first "</pre>" after it.
RECURSIVE UpToPreEnd(_)
UpToPreEnd(b) ==
    IF b = <<>> THEN [found |-> FALSE, inner |-> <<>>]
    ELSE IF Head(b) = "</pre>" THEN [found |-> TRUE, inner |-> <<>>]
    ELSE LET r == UpToPreEnd(Tail(b))
         IN  [found |-> r.found, inner |-> <<Head(b)>> \o r.inner]

\* re.FindSubmatch(body) for (?s)<pre[^>]*>(.*?)</pre>
RECURSIVE FindPre(_)
FindPre(b) ==
    IF b = <<>> THEN [found |-> FALSE, inner |-> <<>>]
    ELSE IF Head(b) = "<pre>" /\ UpToPreEnd(Tail(b)).found THEN UpToPreEnd(Tail(b))
    ELSE FindPre(Tail(b))

\* The replacements of one token: line breaks, tags, the four entities.
CleanToken(tok) ==
    CASE tok \in {"<br>", "<br/>", "<br />"} -> <<"\n">>
      [] tok \in {"<b>", "</b>", "<html>", "</html>", "<pre>"} -> <<>>
      [] tok = "AT&amp;T" -> <<"AT&T">>
      [] OTHER -> <<tok>>

RECURSIVE CleanText(_)
CleanText(b) == IF b = <<>> THEN <<>> ELSE CleanToken(Head(b)) \o CleanText(Tail(b))

\* A variant that takes the whole page when it has no <pre> block.
FetchMCDTextWholePage(x) ==
    IF x.kind # "ok" THEN [text |-> <<>>, err |-> TRUE]
    ELSE IF ~FindPre(x.body).found THEN [text |-> CleanText(x.body), err |-> FALSE]
    ELSE [text |-> CleanText(FindPre(x.body).inner), err |-> FALSE]

\* fetchMCDText's (text, err) for one response.
FetchMCDText(x) ==
    IF x.kind # "ok" THEN [text |-> <<>>, err |-> TRUE]
    ELSE IF ~FindPre(x.body).found THEN [text |-> <<>>, err |-> FALSE]
    ELSE [text |-> CleanText(FindPre(x.body).inner), err |-> FALSE]

\* ---------------------------------------------- fetchMesoscaleDiscussions
\* strings.TrimPrefix(s, prefix)
TrimPrefix(s, prefix) ==
    IF Len(s) >= Len(prefix) /\ SubSeq(s, 1, Len(prefix)) = prefix
    THEN SubSeq(s, Len(prefix) + 1, Len(s))
    ELSE s

\* mcdNum := strings.TrimPrefix(props.Name, "MD ")
TrimPrefixMD(name) == TrimPrefix(name, <<"M", "D", " ">>)

\* The loop asks for the text page of a feature it keeps: one with a
\* geometry and a non-empty mcdNum.
Asked(f) == ~f.geometry.isnil /\ TrimPrefixMD(f.name) # <<>>

\* No text page was asked for.
NotAsked == [kind |-> "none", body |-> <<>>]

\* The history of a cycle's discussion retrieval, before the query.
NoMCDLog == [features |-> <<>>, answers |-> <<>>, queried |-> FALSE]

\* A variant that skips a discussion whose text page failed.
AppendDiscussionSkipFailed(mCDs, f, x) ==
    IF f.geometry.isnil THEN mCDs
    ELSE IF TrimPrefixMD(f.name) = <<>> THEN mCDs
    ELSE IF FetchMCDText(x).err THEN mCDs
    ELSE AppendSlice(mCDs,
            [id |-> <<"M", "C", "D", " ">> \o TrimPrefixMD(f.name), name |-> f.name,
             fullText |-> FetchMCDText(x).text, popupInfo |-> f.popupInfo,
             fileDate |-> f.fileDate, geometry |-> f.geometry])

\* A variant that keeps a feature without geometry.
AppendDiscussionAnyGeometry(mCDs, f, x) ==
    IF TrimPrefixMD(f.name) = <<>> THEN mCDs
    ELSE AppendSlice(mCDs,
            [id |-> <<"M", "C", "D", " ">> \o TrimPrefixMD(f.name), name |-> f.name,
             fullText |-> FetchMCDText(x).text, popupInfo |-> f.popupInfo,
             fileDate |-> f.fileDate, geometry |-> f.geometry])

\* A variant that puts the newest discussion first.
AppendDiscussionInFront(mCDs, f, x) ==
    IF f.geometry.isnil THEN mCDs
    ELSE IF TrimPrefixMD(f.name) = <<>> THEN mCDs
    ELSE MakeSlice(
            << [id |-> <<"M", "C", "D", " ">> \o TrimPrefixMD(f.name), name |-> f.name,
                fullText |-> FetchMCDText(x).text, popupInfo |-> f.popupInfo,
                fileDate |-> f.fileDate, geometry |-> f.geometry] >> \o mCDs.elems)

\* The body of "for _, f := range geoResp.Features" for one feature; x is
\* the answer of the text page, asked only for a feature that is kept.
AppendDiscussion(mCDs, f, x) ==
    IF f.geometry.isnil THEN mCDs
    ELSE IF TrimPrefixMD(f.name) = <<>> THEN mCDs
    ELSE AppendSlice(mCDs,
            [id |-> <<"M", "C", "D", " ">> \o TrimPrefixMD(f.name), name |-> f.name,
             fullText |-> FetchMCDText(x).text, popupInfo |-> f.popupInfo,
             fileDate |-> f.fileDate, geometry |-> f.geometry])

\* A variant that returns the slice as the loop left it.
NormalizeMCDsKeepNil(m) == m

\* if mCDs == nil { mCDs = []MesoscaleDiscussionJSON{} }
NormalizeMCDs(m) == IF m.isnil THEN EmptySlice ELSE m

\* -------------------------------------------------------------- json.Marshal
Tok(k, v) == [k |-> k, v |-> v]

\* A slice marshals to null when nil, to an array otherwise.
JsonSlice(s) == IF s.isnil THEN <<"null">> ELSE <<"array", s.elems>>

\* A *GeoGeometry marshals to null when nil, to an object otherwise.
JsonGeometry(gm) ==
    IF gm.isnil THEN <<"null">> ELSE <<"object", gm.type, gm.coordinates>>

\* A WarningJSON marshals to an object with every key (no omitempty).
JsonWarning(w) ==
    [id |-> w.id, type |-> w.type, severity |-> w.severity, expiresTime |-> w.expiresTime,
     geometry |-> JsonGeometry(w.geometry), ugc |-> JsonSlice(w.ugc),
     same |-> JsonSlice(w.same)]

JsonWarnings(s) ==
    IF s.isnil THEN <<"null">>
    ELSE <<"array", [i \in 1..Len(s.elems) |-> JsonWarning(s.elems[i])]>>

\* Format("Jan 2, 2006 at 03:04:01 UTC")
FormatTime(t) == [layout |-> "Jan 2, 2006 at 03:04:01 UTC", t |-> t]

\* json.Marshal(payload) for a PolledPayload.
Marshal(p) ==
    << Tok("{", <<>>),
       Tok("warnings", JsonWarnings(p.Warnings)),
       Tok("mesoscaleDiscussions", JsonSlice(p.MesoscaleDiscussions)),
       Tok("lastUpdated", <<"string", p.LastUpdated>>),
       Tok("counter", <<"number", p.Counter>>),
       Tok("updatedAtUTC", <<"number", p.UpdatedAtUTC>>),
       Tok("}", <<>>) >>

\* A variant whose counter counts the discussions as well.
PolledPayloadCountsAll(warnings, mCDs, t1, t2) ==
    [Warnings |-> warnings, MesoscaleDiscussions |-> mCDs,
     LastUpdated |-> FormatTime(t1), Counter |-> Len(warnings.elems) + Len(mCDs.elems),
     UpdatedAtUTC |-> t2]

\* payload := PolledPayload{...}; t1 and t2 are the two time.Now() calls.
PolledPayload(warnings, mCDs, t1, t2) ==
    [Warnings |-> warnings, MesoscaleDiscussions |-> mCDs,
     LastUpdated |-> FormatTime(t1), Counter |-> Len(warnings.elems),
     UpdatedAtUTC |-> t2]

\* json.MarshalIndent(data) of GenerateWarningsJSON: no mesoscaleDiscussions.
MarshalWarningsJSON(warnings, t1, t2) ==
    << Tok("{", <<>>),
       Tok("warnings", JsonSlice(warnings)),
       Tok("lastUpdated", <<"string", FormatTime(t1)>>),
       Tok("counter", <<"number", Len(warnings.elems)>>),
       Tok("updatedAtUTC", <<"number", t2>>),
       Tok("}", <<>>) >>

\* The page GenerateWarningsHTML renders.
RenderHTML(warnings) == << Tok("<!DOCTYPE html>", JsonSlice(warnings)) >>

\* What a reader decodes: nothing unless the document is closed; then the
\* value of each key, "missing" for a key the document lacks.
IsDocument(b) == Len(b) >= 2 /\ b[1].k = "{" /\ b[Len(b)].k = "}"

Field(b, key) ==
    IF \E i \in 1..Len(b) : b[i].k = key
    THEN b[CHOOSE i \in 1..Len(b) : b[i].k = key].v
    ELSE <<"missing">>

\* ------------------------------------------------------------ os.WriteFile
\* os.WriteFile opens the path with O_CREATE|O_TRUNC, then writes.  A write
\* that fails has written a strict prefix of the data: here, half of it.
ShortWrites(b) == { Len(b) \div 2 }

\* ------------------------------------------------------------ pollAndWrite
Goroutines == {"main", "bg"}

\* pollAndWrite's locals while no call is running.
IdleLocals ==
    [pc |-> "idle", url |-> "", all |-> NilSlice, warnings |-> NilSlice,
     geo |-> <<>>, mCDs |-> NilSlice, mcdErr |-> FALSE, data |-> <<>>, err |-> "none",
     timer |-> "none"]

\* A call is running from its entry until it returns to its caller.
InProgress(loc) == loc.pc \notin {"idle", "sleep", "returned"}

\* Entry of pollAndWrite, up to fetchAllAlerts' first request.
EnterPoll == [IdleLocals EXCEPT !.pc = "alerts", !.url = nwsAlertsURL]

\* A variant that goes on to the discussions after a failed alert request.
OnAlertErrorGoesOn(loc) ==
    [loc EXCEPT !.pc = "mcd", !.all = NilSlice, !.warnings = NilSlice,
                !.err = "fetch failed"]

\* fetchAllAlerts returns (nil, err); pollAndWrite returns "fetch failed".
OnAlertError(loc) ==
    [loc EXCEPT !.pc = "returned", !.all = NilSlice, !.warnings = NilSlice,
                !.err = "fetch failed"]

\* One iteration of "for url != """ with a decoded page; when no next link
\* remains fetchAllAlerts returns and pollAndWrite goes on to the discussions.
OnAlertPage(loc, r, tnow) ==
    LET all2 == ProcessFeatures(loc.all, r.features, tnow)
        u    == NextURL(r.pagination)
    IN  IF u # ""
        THEN [loc EXCEPT !.all = all2, !.url = u]
        ELSE [loc EXCEPT !.all = NilSlice, !.url = "", !.warnings = NormalizeAll(all2),
                         !.pc = "mcd"]

\* A variant that leaves mCDs nil.
OnMCDErrorKeepNil(loc) == [loc EXCEPT !.mCDs = NilSlice, !.mcdErr = TRUE, !.pc = "build"]

\* The MapServer query failed: logged, mCDs = []MesoscaleDiscussionJSON{}.
OnMCDError(loc) == [loc EXCEPT !.mCDs = EmptySlice, !.mcdErr = TRUE, !.pc = "build"]

\* The MapServer query succeeded: the loop over its features begins.
OnMCDResponse(loc, g) ==
    IF g.features = <<>>
    THEN [loc EXCEPT !.mCDs = NormalizeMCDs(NilSlice), !.pc = "build"]
    ELSE [loc EXCEPT !.geo = g.features, !.mCDs = NilSlice, !.pc = "mcdloop"]

\* One iteration of the loop over the features, the last one returning.
OnMCDFeature(loc, x) ==
    LET m == AppendDiscussion(loc.mCDs, Head(loc.geo), x)
    IN  IF Tail(loc.geo) = <<>>
        THEN [loc EXCEPT !.geo = <<>>, !.mCDs = NormalizeMCDs(m), !.pc = "build"]
        ELSE [loc EXCEPT !.geo = Tail(loc.geo), !.mCDs = m]

\* payload := PolledPayload{...}; data, err := json.Marshal(payload).  The
\* payload holds only values json.Unmarshal produced, so Marshal succeeds.
OnBuild(loc, t1, t2) ==
    [loc EXCEPT !.data = Marshal(PolledPayload(loc.warnings, loc.mCDs, t1, t2)),
                !.pc = "open"]

\* ---- the steps of one pollAndWrite call by goroutine g

\* One GET of the alert feed and the processing of its answer.
FetchPage(g, R, T) ==
    /\ mainpc # "exited"
    /\ pw[g].pc = "alerts"
    /\ \E r \in R, tnow \in Later(now, T) :
         /\ r.kind # "ok" => tnow = now
         /\ r.kind = "ok" =>
               Len(ProcessFeatures(pw[g].all, r.features, tnow).elems) <= MaxAlerts
         /\ now' = tnow
         /\ pw' = [pw EXCEPT ![g] = IF r.kind = "ok" THEN OnAlertPage(@, r, tnow)
                                     ELSE OnAlertError(@)]
         /\ log' = [log EXCEPT ![g] =
                      IF Len(@) < MaxPages
                      THEN Append(@, [url |-> pw[g].url, resp |-> r, at |-> tnow])
                      ELSE @]
         /\ reqs' = [reqs EXCEPT ![g] = IF @ <= MaxPages THEN @ + 1 ELSE @]
    /\ UNCHANGED << entryTmp, served, rawText, parsed, outputFile, watchMode, files, mainpc, genWarnings, genData,
                    bgStarted, entry, everFailed, mcdLog >>

\* The GET of the MapServer query.
FetchMCDQuery(g, G) ==
    /\ mainpc # "exited"
    /\ pw[g].pc = "mcd"
    /\ \E r \in G :
         /\ pw' = [pw EXCEPT ![g] = IF r.kind = "ok" THEN OnMCDResponse(@, r)
                                    ELSE OnMCDError(@)]
         /\ mcdLog' = [mcdLog EXCEPT ![g] =
                         [features |-> r.features, answers |-> <<>>, queried |-> TRUE]]
    /\ UNCHANGED << entryTmp, served, rawText, parsed, now, outputFile, watchMode, files, mainpc, genWarnings, genData,
                    bgStarted, log, reqs, entry, everFailed >>

\* One feature of the MapServer answer, with the GET of its text page.
FetchMCDFeature(g, X) ==
    /\ mainpc # "exited"
    /\ pw[g].pc = "mcdloop"
    /\ \E x \in X :
         /\ pw' = [pw EXCEPT ![g] = OnMCDFeature(@, x)]
         /\ mcdLog' = [mcdLog EXCEPT ![g].answers =
                         Append(@, IF Asked(Head(pw[g].geo)) THEN x ELSE NotAsked)]
    /\ UNCHANGED << entryTmp, served, rawText, parsed, now, outputFile, watchMode, files, mainpc, genWarnings, genData,
                    bgStarted, log, reqs, entry, everFailed >>

\* The snapshot is assembled and serialized.
BuildPayload(g, T) ==
    /\ mainpc # "exited"
    /\ pw[g].pc = "build"
    /\ \E t1 \in Later(now, T) : \E t2 \in Later(t1, T) :
         /\ now' = t2
         /\ pw' = [pw EXCEPT ![g] = OnBuild(@, t1, t2)]
    /\ UNCHANGED << entryTmp, served, rawText, parsed, outputFile, watchMode, files, mainpc, genWarnings, genData,
                    bgStarted, log, reqs, entry, everFailed, mcdLog >>

\* A variant that refuses to open a temp file that exists.
OpenTmpExclusive(g) ==
    /\ mainpc # "exited"
    /\ pw[g].pc = "open"
    /\ \/ /\ ~files[TmpPath(JsonPath(outputFile))].exists
          /\ files' = [files EXCEPT ![TmpPath(JsonPath(outputFile))] = FileOf(<<>>)]
          /\ pw' = [pw EXCEPT ![g].pc = "write"]
       \/ /\ pw' = [pw EXCEPT ![g].pc = "returned", ![g].err = "write tmp failed"]
          /\ UNCHANGED files
    /\ UNCHANGED << entryTmp, served, rawText, parsed, now, outputFile, watchMode, mainpc, genWarnings, genData,
                    bgStarted, log, reqs, entry, everFailed, mcdLog >>

\* os.WriteFile(tmp, data, 0644): the open, which truncates.
OpenTmp(g) ==
    /\ mainpc # "exited"
    /\ pw[g].pc = "open"
    /\ \/ /\ files' = [files EXCEPT ![TmpPath(JsonPath(outputFile))] = FileOf(<<>>)]
          /\ pw' = [pw EXCEPT ![g].pc = "write"]
       \/ /\ pw' = [pw EXCEPT ![g].pc = "returned", ![g].err = "write tmp failed"]
          /\ UNCHANGED files
    /\ UNCHANGED << entryTmp, served, rawText, parsed, now, outputFile, watchMode, mainpc, genWarnings, genData,
                    bgStarted, log, reqs, entry, everFailed, mcdLog >>

\* A variant that goes on to the rename after a short write.
WriteTmpIgnoresError(g) ==
    /\ mainpc # "exited"
    /\ pw[g].pc = "write"
    /\ \/ /\ files' = [files EXCEPT ![TmpPath(JsonPath(outputFile))] = FileOf(pw[g].data)]
          /\ pw' = [pw EXCEPT ![g].pc = "rename"]
       \/ \E n \in ShortWrites(pw[g].data) :
            /\ files' = [files EXCEPT ![TmpPath(JsonPath(outputFile))] =
                                          FileOf(Prefix(pw[g].data, n))]
            /\ pw' = [pw EXCEPT ![g].pc = "rename"]
    /\ UNCHANGED << entryTmp, served, rawText, parsed, now, outputFile, watchMode, mainpc, genWarnings, genData,
                    bgStarted, log, reqs, entry, everFailed, mcdLog >>

\* os.WriteFile(tmp, data, 0644): the write, complete or failed short.
WriteTmp(g) ==
    /\ mainpc # "exited"
    /\ pw[g].pc = "write"
    /\ \/ /\ files' = [files EXCEPT ![TmpPath(JsonPath(outputFile))] = FileOf(pw[g].data)]
          /\ pw' = [pw EXCEPT ![g].pc = "rename"]
       \/ \E n \in ShortWrites(pw[g].data) :
            /\ files' = [files EXCEPT ![TmpPath(JsonPath(outputFile))] =
                                          FileOf(Prefix(pw[g].data, n))]
            /\ pw' = [pw EXCEPT ![g].pc = "returned", ![g].err = "write tmp failed"]
    /\ UNCHANGED << entryTmp, served, rawText, parsed, now, outputFile, watchMode, mainpc, genWarnings, genData,
                    bgStarted, log, reqs, entry, everFailed, mcdLog >>

\* A variant that removes the temp file when the rename fails.
RenameTmpCleansUp(g) ==
    /\ mainpc # "exited"
    /\ pw[g].pc = "rename"
    /\ \/ /\ files[TmpPath(JsonPath(outputFile))].exists
          /\ files' = [files EXCEPT ![JsonPath(outputFile)] = files[TmpPath(JsonPath(outputFile))],
                                    ![TmpPath(JsonPath(outputFile))] = NoFile]
          /\ pw' = [pw EXCEPT ![g].pc = "returned"]
       \/ /\ pw' = [pw EXCEPT ![g].pc = "returned", ![g].err = "rename failed"]
          /\ files' = [files EXCEPT ![TmpPath(JsonPath(outputFile))] = NoFile]
    /\ UNCHANGED << entryTmp, served, rawText, parsed, now, outputFile, watchMode, mainpc, genWarnings, genData,
                    bgStarted, log, reqs, entry, everFailed, mcdLog >>

\* A variant that keeps the discussions of the snapshot it replaces.
RenameTmpKeepsOld(g) ==
    /\ mainpc # "exited"
    /\ pw[g].pc = "rename"
    /\ \/ /\ files[TmpPath(JsonPath(outputFile))].exists
          /\ files' = [files EXCEPT
                ![JsonPath(outputFile)] =
                    IF @.exists /\ Len(@.bytes) = 7
                       /\ Len(files[TmpPath(JsonPath(outputFile))].bytes) = 7
                    THEN FileOf([files[TmpPath(JsonPath(outputFile))].bytes
                                    EXCEPT ![3] = files[JsonPath(outputFile)].bytes[3]])
                    ELSE files[TmpPath(JsonPath(outputFile))],
                ![TmpPath(JsonPath(outputFile))] = NoFile]
          /\ pw' = [pw EXCEPT ![g].pc = "returned"]
       \/ /\ pw' = [pw EXCEPT ![g].pc = "returned", ![g].err = "rename failed"]
          /\ UNCHANGED files
    /\ UNCHANGED << entryTmp, served, rawText, parsed, now, outputFile, watchMode, mainpc, genWarnings, genData,
                    bgStarted, log, reqs, entry, everFailed, mcdLog >>

\* A variant that copies the temp file to the target and leaves it.
RenameTmpCopies(g) ==
    /\ mainpc # "exited"
    /\ pw[g].pc = "rename"
    /\ \/ /\ files[TmpPath(JsonPath(outputFile))].exists
          /\ files' = [files EXCEPT ![JsonPath(outputFile)] = files[TmpPath(JsonPath(outputFile))]]
          /\ pw' = [pw EXCEPT ![g].pc = "returned"]
       \/ /\ pw' = [pw EXCEPT ![g].pc = "returned", ![g].err = "rename failed"]
          /\ UNCHANGED files
    /\ UNCHANGED << entryTmp, served, rawText, parsed, now, outputFile, watchMode, mainpc, genWarnings, genData,
                    bgStarted, log, reqs, entry, everFailed, mcdLog >>

\* os.Rename(tmp, outputPath): atomic, or failed with nothing changed.
RenameTmp(g) ==
    /\ mainpc # "exited"
    /\ pw[g].pc = "rename"
    /\ \/ /\ files[TmpPath(JsonPath(outputFile))].exists
          /\ files' = [files EXCEPT ![JsonPath(outputFile)] = files[TmpPath(JsonPath(outputFile))],
                                    ![TmpPath(JsonPath(outputFile))] = NoFile]
          /\ pw' = [pw EXCEPT ![g].pc = "returned"]
       \/ /\ pw' = [pw EXCEPT ![g].pc = "returned", ![g].err = "rename failed"]
          /\ UNCHANGED files
    /\ UNCHANGED << entryTmp, served, rawText, parsed, now, outputFile, watchMode, mainpc, genWarnings, genData,
                    bgStarted, log, reqs, entry, everFailed, mcdLog >>

\* ------------------------------------------------------------- StartPoller
\* A variant that launches the goroutine before the first call has returned.
InitialPollNotAwaited(loc) == TRUE

\* "go func()" comes after the first pollAndWrite has returned.
InitialPollDone(loc) == loc.pc = "returned"

\* A variant whose loop ends at the first error.
AfterCycleStopOnError(loc) ==
    IF loc.err # "none" THEN [IdleLocals EXCEPT !.pc = "stopped"]
    ELSE [IdleLocals EXCEPT !.pc = "sleep", !.timer = "running"]

\* A variant that goes on to the next call without waiting.
AfterCycleNoWait(loc) == [IdleLocals EXCEPT !.pc = "sleep", !.timer = "fired"]

\* The loop of the goroutine after a call returned: the error, if any, is
\* logged, and the loop goes back to time.Sleep(interval), whose timer
\* starts at this call.
AfterCycle(loc) == [IdleLocals EXCEPT !.pc = "sleep", !.timer = "running"]

\* runWatchMode calls StartPoller, which calls pollAndWrite itself.
StartPollerCall ==
    /\ mainpc = "start_poller"
    /\ mainpc' = "poll"
    /\ pw' = [pw EXCEPT !["main"] = EnterPoll]
    /\ entry' = [entry EXCEPT !["main"] = files[JsonPath(outputFile)]]
    /\ entryTmp' = [entryTmp EXCEPT !["main"] = files[TmpPath(JsonPath(outputFile))].exists]
    /\ log' = [log EXCEPT !["main"] = <<>>]
    /\ reqs' = [reqs EXCEPT !["main"] = 0]
    /\ mcdLog' = [mcdLog EXCEPT !["main"] = NoMCDLog]
    /\ UNCHANGED << served, rawText, parsed, now, outputFile, watchMode, files, genWarnings, genData,
                    bgStarted, everFailed >>

\* StartPoller launches the goroutine, which begins by sleeping.
SpawnPoller ==
    /\ mainpc = "poll"
    /\ ~bgStarted
    /\ InitialPollDone(pw["main"])
    /\ bgStarted' = TRUE
    /\ pw' = [pw EXCEPT !["bg"] = [IdleLocals EXCEPT !.pc = "sleep", !.timer = "running"]]
    /\ UNCHANGED << entryTmp, served, rawText, parsed, now, outputFile, watchMode, files, mainpc, genWarnings, genData,
                    log, reqs, entry, everFailed, mcdLog >>

\* StartPoller returns to runWatchMode, which enters its ticker loop.
StartPollerReturn ==
    /\ mainpc = "poll"
    /\ bgStarted
    /\ pw["main"].pc = "returned"
    /\ mainpc' = "ticker"
    /\ pw' = [pw EXCEPT !["main"] = IdleLocals]
    /\ entry' = [entry EXCEPT !["main"] = NoFile]
    /\ entryTmp' = [entryTmp EXCEPT !["main"] = FALSE]
    /\ log' = [log EXCEPT !["main"] = <<>>]
    /\ reqs' = [reqs EXCEPT !["main"] = 0]
    /\ mcdLog' = [mcdLog EXCEPT !["main"] = NoMCDLog]
    /\ UNCHANGED << served, rawText, parsed, now, outputFile, watchMode, files, genWarnings, genData,
                    bgStarted, everFailed >>

\* The interval of time.Sleep(interval) has elapsed.
SleepElapses ==
    /\ mainpc # "exited"
    /\ bgStarted
    /\ pw["bg"].pc = "sleep"
    /\ pw["bg"].timer = "running"
    /\ pw' = [pw EXCEPT !["bg"].timer = "fired"]
    /\ UNCHANGED << entryTmp, served, rawText, parsed, now, outputFile, watchMode, files, mainpc, genWarnings, genData,
                    bgStarted, log, reqs, entry, everFailed, mcdLog >>

\* time.Sleep(interval) returns: the goroutine calls pollAndWrite.
BgWake ==
    /\ mainpc # "exited"
    /\ bgStarted
    /\ pw["bg"].pc = "sleep"
    /\ pw["bg"].timer = "fired"
    /\ pw' = [pw EXCEPT !["bg"] = EnterPoll]
    /\ entry' = [entry EXCEPT !["bg"] = files[JsonPath(outputFile)]]
    /\ entryTmp' = [entryTmp EXCEPT !["bg"] = files[TmpPath(JsonPath(outputFile))].exists]
    /\ log' = [log EXCEPT !["bg"] = <<>>]
    /\ reqs' = [reqs EXCEPT !["bg"] = 0]
    /\ mcdLog' = [mcdLog EXCEPT !["bg"] = NoMCDLog]
    /\ UNCHANGED << served, rawText, parsed, now, outputFile, watchMode, files, mainpc, genWarnings, genData,
                    bgStarted, everFailed >>

\* pollAndWrite returned to the goroutine's loop.
BgLoop ==
    /\ mainpc # "exited"
    /\ bgStarted
    /\ pw["bg"].pc = "returned"
    /\ pw' = [pw EXCEPT !["bg"] = AfterCycle(@)]
    /\ everFailed' = (everFailed \/ pw["bg"].err # "none")
    /\ entry' = [entry EXCEPT !["bg"] = NoFile]
    /\ entryTmp' = [entryTmp EXCEPT !["bg"] = FALSE]
    /\ log' = [log EXCEPT !["bg"] = <<>>]
    /\ reqs' = [reqs EXCEPT !["bg"] = 0]
    /\ mcdLog' = [mcdLog EXCEPT !["bg"] = NoMCDLog]
    /\ UNCHANGED << served, rawText, parsed, now, outputFile, watchMode, files, mainpc, genWarnings, genData,
                    bgStarted >>

\* ------------------------------------------------------------ parseMCDText
\* The page's text extractor (JavaScript of the template).  A text is a
\* sequence of tokens: words, the ellipsis, a blank, a line break, a number.
MaxText == 4

TextTokens == {"MESOSCALE", "DISCUSSION", "Valid", "...", " ", "\n", "0300"}

Texts == UNION { [1..n -> TextTokens] : n \in 0..MaxText }

\* The tokens [A-Z]+ matches under the flag i: the words.
Words == {"MESOSCALE", "DISCUSSION", "Valid"}

\* The tokens \s matches.
IsSpace(tok) == tok \in {" ", "\n"}

\* The flag i: letters compare without case.
ToUpper(tok) == IF tok = "Valid" THEN "VALID" ELSE tok

\* The labels, as the code writes them.
AREA_AFFECTED == <<"AREA", " ", "AFFECTED">>

CONCERNING == <<"CONCERNING">>

VALID == <<"VALID">>

SUMMARY == <<"SUMMARY">>

DISCUSSION == <<"DISCUSSION">>

PROBABILITY_OF_WATCH_ISSUANCE ==
    <<"PROBABILITY", " ", "OF", " ", "WATCH", " ", "ISSUANCE">>

\* parseMCDText has not been called.
NotParsed == [called |-> FALSE]

Min(S) == CHOOSE x \in S : \A y \in S : x <= y

Max(S) == CHOOSE x \in S : \A y \in S : x >= y

\* rawText.indexOf('MESOSCALE DISCUSSION'), 0 for "not found"; the
\* comparison keeps the case.
IndexOfHeader(t) ==
    LET h    == <<"MESOSCALE", " ", "DISCUSSION">>
        hits == { i \in 1..Len(t) : i + 2 <= Len(t) /\ SubSeq(t, i, i + 2) = h }
    IN  IF hits = {} THEN 0 ELSE Min(hits)

\* text = startIdx >= 0 ? rawText.substring(startIdx) : rawText
FromHeader(t) == IF IndexOfHeader(t) = 0 THEN t ELSE SubSeq(t, IndexOfHeader(t), Len(t))

\* The label stands at position i of t, in any case.
LabelAt(t, i, label) ==
    /\ i + Len(label) - 1 <= Len(t)
    /\ \A k \in 1..Len(label) : ToUpper(t[i + k - 1]) = label[k]

\* (.+) from position a: the rest of the line.
RestOfLine(t, a) ==
    LET breaks == { j \in a..Len(t) : t[j] = "\n" }
    IN  SubSeq(t, a, IF breaks = {} THEN Len(t) ELSE Min(breaks) - 1)

\* String.prototype.trim
RECURSIVE TrimLeft(_)
TrimLeft(t) == IF t # <<>> /\ IsSpace(Head(t)) THEN TrimLeft(Tail(t)) ELSE t

RECURSIVE TrimRight(_)
TrimRight(t) ==
    IF t # <<>> /\ IsSpace(t[Len(t)]) THEN TrimRight(SubSeq(t, 1, Len(t) - 1)) ELSE t

Trim(t) == TrimLeft(TrimRight(t))

\* replace(/\s+/g, ' ')
RECURSIVE CollapseSpace(_)
CollapseSpace(t) ==
    IF t = <<>> THEN <<>>
    ELSE IF IsSpace(Head(t))
         THEN <<" ">> \o CollapseSpace(TrimLeft(t))
         ELSE <<Head(t)>> \o CollapseSpace(Tail(t))

\* The widths \s+ can take after position p - 1 so that (.+) finds a
\* character that is no line break.
SpaceWidths(t, p) ==
    { k \in 1..Len(t) : /\ p + k <= Len(t)
                        /\ \A j \in p..(p + k - 1) : IsSpace(t[j])
                        /\ t[p + k] # "\n" }

\* getInline: the label with an ellipsis and the rest of its line, else the
\* label with white space and the rest of the line after it, else ''.
GetInline(t, label) ==
    LET n  == Len(label)
        e1 == { i \in 1..Len(t) : /\ LabelAt(t, i, label)
                                  /\ i + n + 1 <= Len(t)
                                  /\ t[i + n] = "..."
                                  /\ t[i + n + 1] # "\n" }
        e2 == { i \in 1..Len(t) : LabelAt(t, i, label) /\ SpaceWidths(t, i + n) # {} }
    IN  IF e1 # {} THEN Trim(RestOfLine(t, Min(e1) + n + 1))
        ELSE IF e2 # {}
             THEN Trim(RestOfLine(t, Min(e2) + n + Max(SpaceWidths(t, Min(e2) + n))))
             ELSE <<>>

\* [A-Z][A-Z]+\.{3} at position j: words up to an ellipsis.
WordsThenEllipsis(t, j) ==
    \E k \in j..Len(t) : /\ \A m \in j..k : t[m] \in Words
                         /\ k + 1 <= Len(t) /\ t[k + 1] = "..."

\* [A-Z][A-Z .]{2,}\.{3} at position a: a word, then words, blanks and
\* dots, up to an ellipsis.
CapsThenEllipsis(t, a) ==
    /\ a <= Len(t) /\ t[a] \in Words
    /\ \E k \in a..Len(t) : /\ \A m \in a..k : t[m] \in Words \cup {" ", "..."}
                            /\ k + 1 <= Len(t) /\ t[k + 1] = "..."

\* The lookahead that ends a block, at position j.
BlockEndsAt(t, j) ==
    \/ j = Len(t) + 1
    \/ /\ j < Len(t) /\ t[j] = "\n"
       /\ \/ CapsThenEllipsis(t, j + 1)
          \/ t[j + 1] = "..."
          \/ t[j + 1] = "MESOSCALE"
    \/ j <= Len(t) /\ WordsThenEllipsis(t, j)

\* getBlock: from the label's ellipsis to the nearest end of block, white
\* space collapsed; '' without "label...".
GetBlock(t, label) ==
    LET n == Len(label)
        e == { i \in 1..Len(t) : /\ LabelAt(t, i, label)
                                 /\ i + n <= Len(t) /\ t[i + n] = "..." }
    IN  IF e = {} THEN <<>>
        ELSE LET b == Min(e) + n + 1
                 j == Min({ x \in b..(Len(t) + 1) : BlockEndsAt(t, x) })
             IN  Trim(CollapseSpace(SubSeq(t, b, j - 1)))

parseMCDText(raw) ==
    IF raw = <<>>
    THEN [called |-> TRUE, area |-> <<>>, concerning |-> <<>>, valid |-> <<>>,
          summary |-> <<>>, discussion |-> <<>>, probability |-> <<>>, raw |-> <<>>]
    ELSE LET text == FromHeader(raw)
         IN  [called |-> TRUE,
              area |-> GetInline(text, AREA_AFFECTED),
              concerning |-> GetInline(text, CONCERNING),
              valid |-> GetInline(text, VALID),
              summary |-> GetBlock(text, SUMMARY),
              discussion |-> GetBlock(text, DISCUSSION),
              probability |-> GetInline(text, PROBABILITY_OF_WATCH_ISSUANCE),
              raw |-> text]

\* The page hands a discussion's fullText to parseMCDText.
ParseMCD ==
    /\ ~parsed.called
    /\ parsed' = parseMCDText(rawText)
    /\ UNCHANGED << now, outputFile, watchMode, files, mainpc, genWarnings, genData,
                    bgStarted, pw, log, reqs, entry, everFailed, mcdLog, served, rawText,
                    entryTmp >>

\* ---------------------------------------------------- generateWarningsHTML
\* ----------------------------------------------------------- FetchWarnings
\* A string is a sequence of tokens: words, parts of words, blanks.
MaxFeatures == 2

\* strings.ToLower, token by token.
ToLowerToken(tok) ==
    CASE tok = "Severe" -> "severe"
      [] tok = "Thunder" -> "thunder"
      [] tok = "Tornado" -> "tornado"
      [] tok = "Winter" -> "winter"
      [] tok = "Storm" -> "storm"
      [] tok = "Warning" -> "warning"
      [] tok = "Flood" -> "flood"
      [] tok = "Advisory" -> "advisory"
      [] tok = "Dense" -> "dense"
      [] tok = "Smoke" -> "smoke"
      [] tok = "Hail" -> "hail"
      [] tok = "Wild" -> "wild"
      [] tok = "FIRE" -> "fire"
      [] OTHER -> tok

ToLower(str) == [i \in 1..Len(str) |-> ToLowerToken(str[i])]

\* strings.Contains(str, substr)
Contains(str, substr) ==
    \E i \in 1..(Len(str) + 1) :
        /\ i + Len(substr) - 1 <= Len(str)
        /\ SubSeq(str, i, i + Len(substr) - 1) = substr

\* isFilteredWords: the description names "fire", in any case.
isFilteredWords(words) ==
    \E filteredType \in { <<"fire">> } : Contains(ToLower(words), filteredType)

\* The filteredTypes of isFilteredWarning.
FilteredTypes ==
    << <<"storm", " ", "warning">>,
       <<"special", " ", "weather", " ", "statement">>,
       <<"storm", " ", "watch">>,
       <<"flood">>,
       <<"winter", " ", "weather", " ", "advisory">>,
       <<"extreme", " ", "heat", " ", "warning">>,
       <<"frost", " ", "advisory">>,
       <<"freeze", " ", "warning">>,
       <<"gale", " ", "warning">>,
       <<"test", " ", "message">>,
       <<"high", " ", "wind", " ", "warning">>,
       <<"wind", " ", "advisory">>,
       <<"high", " ", "wind", " ", "watch">>,
       <<"heat", " ", "advisory">>,
       <<"dense", " ", "fog", " ", "advisory">>,
       <<"blowing", " ", "dust", " ", "advisory">>,
       <<"dust", " ", "storm", " ", "warning">>,
       <<"small", " ", "craft", " ", "advisory">>,
       <<"red", " ", "flag", " ", "warning">>,
       <<"air", " ", "quality", " ", "alert">>,
       <<"heavy", " ", "freezing", " ", "spray", " ", "warning">>,
       <<"fire", " ", "weather", " ", "watch">>,
       <<"gale", " ", "watch">>,
       <<"blowing", " ", "dust", " ", "warning">>,
       <<"hydrologic", " ", "outlook">>,
       <<"marine">>,
       <<"coastal", " ", "flood">>,
       <<"river", " ", "flood">>,
       <<"flash", " ", "flood">>,
       <<"high", " ", "surf">>,
       <<"rip", " ", "current">>,
       <<"beach", " ", "hazard">>,
       <<"coastal", " ", "hazard">>,
       <<"coastal", " ", "erosion">> >>

\* A variant without the two early returns.
IsFilteredWarningListOnly(eventType) ==
    \E i \in 1..Len(FilteredTypes) : Contains(ToLower(eventType), FilteredTypes[i])

\* isFilteredWarning: never for severe thunderstorms and tornadoes,
\* otherwise when the event names one of the filtered types.
isFilteredWarning(eventType) ==
    LET lowercaseEvent == ToLower(eventType)
    IN  IF Contains(lowercaseEvent, <<"severe", " ", "thunder", "storm">>) THEN FALSE
        ELSE IF Contains(lowercaseEvent, <<"tornado">>) THEN FALSE
        ELSE \E i \in 1..Len(FilteredTypes) : Contains(lowercaseEvent, FilteredTypes[i])

\* The event types and descriptions the alert feed serves.
Events ==
    { <<"Severe", " ", "Thunder", "storm", " ", "Warning">>,
      <<"Tornado", " ", "Warning">>,
      <<"Winter", " ", "Storm", " ", "Warning">>,
      <<"Flood", " ", "Advisory">>,
      <<"Dense", " ", "Smoke", " ", "Advisory">> }

Descriptions ==
    { <<"Hail", " ", "expected">>, <<"Wild", "fire", " ", "smoke">>, <<"FIRE", " ", "danger">> }

\* A feature of the feed, as FetchWarnings decodes it.
WarningFeature(ev, desc) ==
    [id |-> "urn:w", event |-> ev, description |-> desc, severity |-> "Severe",
     sent |-> "2024-05-01T00:00:00Z", expires |-> "2024-05-01T00:00:02Z",
     headline |-> "headline", areaDesc |-> "Some County"]

WarningFeatures == { WarningFeature(ev, desc) : ev \in Events, desc \in Descriptions }

\* The feed's answer to FetchWarnings: an error (transport, status, body,
\* JSON), or the decoded features.
WarningResponses ==
    { [kind |-> k, features |-> <<>>] : k \in {"transport", "status", "read", "decode"} }
    \cup { [kind |-> "ok", features |-> l] :
              l \in UNION { [1..n -> WarningFeatures] : n \in 0..MaxFeatures } }

\* The fetcher.Warning made of a feature.
ToWarning(f) ==
    [id |-> f.id, type |-> f.event, description |-> f.description, area |-> f.areaDesc,
     severity |-> f.severity, time |-> f.sent, expires_time |-> f.expires]

\* The body of "for _, feature := range apiResponse.Features".
RECURSIVE FilterFeatures(_, _)
FilterFeatures(warnings, features) ==
    IF features = <<>> THEN warnings
    ELSE IF isFilteredWarning(Head(features).event)
         THEN FilterFeatures(warnings, Tail(features))
    ELSE IF isFilteredWords(Head(features).description)
         THEN FilterFeatures(warnings, Tail(features))
    ELSE FilterFeatures(AppendSlice(warnings, ToWarning(Head(features))), Tail(features))

\* fetcher.FetchWarnings(): (nil, err), or the warnings it kept, starting
\* from make([]Warning, 0, len(apiResponse.Features)).
FetchWarnings(r) ==
    IF r.kind # "ok" THEN [err |-> TRUE, warnings |-> NilSlice]
    ELSE [err |-> FALSE, warnings |-> FilterFeatures(EmptySlice, r.features)]

\* A fetcher.Warning the static page lists.
PageWarning ==
    ToWarning(WarningFeature(<<"Tornado", " ", "Warning">>, <<"Hail", " ", "expected">>))

\* The answers of the feed in the whole process: an error, or the one
\* feature of PageWarning.
FewWarningResponses ==
    { r \in WarningResponses :
         \/ r.kind = "transport"
         \/ r.kind = "ok" /\ FetchWarnings(r).warnings = MakeSlice(<<PageWarning>>)
                         /\ Len(r.features) = 1 }

\* Where the main goroutine goes when generateWarningsHTML returns an error:
\* the first call ends the process, a later one is printed by the ticker loop.
AfterGenError == IF bgStarted THEN "ticker" ELSE "exited"

\* Where it goes when generateWarningsHTML succeeds.
AfterGenDone ==
    IF bgStarted THEN "ticker" ELSE IF watchMode THEN "start_poller" ELSE "exited"

\* warnings, err := fetcher.FetchWarnings()
GenFetch(R) ==
    /\ mainpc = "gen_fetch"
    /\ \E r \in R :
         /\ genWarnings' = FetchWarnings(r).warnings
         /\ served' = r.features
         /\ mainpc' = IF FetchWarnings(r).err THEN AfterGenError ELSE "gen_json_open"
    /\ UNCHANGED << entryTmp, rawText, parsed, now, outputFile, watchMode, files, genData, bgStarted, pw, log,
                    reqs, entry, everFailed, mcdLog >>

\* GenerateWarningsHTML begins with GenerateWarningsJSON(warnings, jsonPath):
\* the document is marshalled, and os.WriteFile opens jsonPath.
GenOpenJSON(T) ==
    /\ mainpc = "gen_json_open"
    /\ \E t1 \in Later(now, T) : \E t2 \in Later(t1, T) :
         /\ now' = t2
         /\ \/ /\ files' = [files EXCEPT ![HtmlJsonPath(outputFile)] = FileOf(<<>>)]
               /\ genData' = MarshalWarningsJSON(genWarnings, t1, t2)
               /\ mainpc' = "gen_json_write"
               /\ UNCHANGED << genWarnings, served >>
            \/ /\ mainpc' = AfterGenError
               /\ genData' = <<>>
               /\ genWarnings' = NilSlice
               /\ served' = <<>>
               /\ UNCHANGED files
    /\ UNCHANGED << entryTmp, rawText, parsed, outputFile, watchMode, bgStarted, pw, log, reqs, entry,
                    everFailed, mcdLog >>

\* os.WriteFile(jsonPath, jsonData, 0644): the write.
GenWriteJSON ==
    /\ mainpc = "gen_json_write"
    /\ \/ /\ files' = [files EXCEPT ![HtmlJsonPath(outputFile)] = FileOf(genData)]
          /\ mainpc' = "gen_html_open"
          /\ genData' = <<>>
          /\ UNCHANGED << genWarnings, served >>
       \/ \E n \in ShortWrites(genData) :
            /\ files' = [files EXCEPT ![HtmlJsonPath(outputFile)] = FileOf(Prefix(genData, n))]
            /\ mainpc' = AfterGenError
            /\ genData' = <<>>
            /\ genWarnings' = NilSlice
            /\ served' = <<>>
    /\ UNCHANGED << entryTmp, rawText, parsed, now, outputFile, watchMode, bgStarted, pw, log, reqs, entry, everFailed, mcdLog >>

\* The template is executed into a buffer and os.WriteFile opens outputPath.
GenOpenHTML ==
    /\ mainpc = "gen_html_open"
    /\ \/ /\ files' = [files EXCEPT ![outputFile] = FileOf(<<>>)]
          /\ genData' = RenderHTML(genWarnings)
          /\ mainpc' = "gen_html_write"
          /\ UNCHANGED << genWarnings, served >>
       \/ /\ mainpc' = AfterGenError
          /\ genData' = <<>>
          /\ genWarnings' = NilSlice
          /\ served' = <<>>
          /\ UNCHANGED files
    /\ UNCHANGED << entryTmp, rawText, parsed, now, outputFile, watchMode, bgStarted, pw, log, reqs, entry, everFailed, mcdLog >>

\* os.WriteFile(outputPath, buf.Bytes(), 0644): the write.
GenWriteHTML ==
    /\ mainpc = "gen_html_write"
    /\ \/ /\ files' = [files EXCEPT ![outputFile] = FileOf(genData)]
          /\ mainpc' = AfterGenDone
       \/ /\ files' = [files EXCEPT ![outputFile] = FileOf(<<>>)]
          /\ mainpc' = AfterGenError
    /\ genData' = <<>>
    /\ genWarnings' = NilSlice
    /\ served' = <<>>
    /\ UNCHANGED << entryTmp, rawText, parsed, now, outputFile, watchMode, bgStarted, pw, log, reqs, entry, everFailed, mcdLog >>

\* The ticker of runWatchMode fires.
Tick ==
    /\ mainpc = "ticker"
    /\ mainpc' = "gen_fetch"
    /\ UNCHANGED << entryTmp, served, rawText, parsed, now, outputFile, watchMode, files, genWarnings, genData,
                    bgStarted, pw, log, reqs, entry, everFailed, mcdLog >>

\* ------------------------------------------------------- the whole process
Init ==
    /\ now = 0
    /\ outputFile = DefaultOutputFile
    /\ watchMode \in BOOLEAN
    /\ files = [p \in Paths |-> NoFile]
    /\ mainpc = "gen_fetch"
    /\ genWarnings = NilSlice
    /\ genData = <<>>
    /\ bgStarted = FALSE
    /\ pw = [g \in Goroutines |-> IdleLocals]
    /\ log = [g \in Goroutines |-> <<>>]
    /\ reqs = [g \in Goroutines |-> 0]
    /\ entry = [g \in Goroutines |-> NoFile]
    /\ everFailed = FALSE
    /\ mcdLog = [g \in Goroutines |-> NoMCDLog]
    /\ served = <<>>
    /\ rawText = <<>>
    /\ parsed = NotParsed
    /\ entryTmp = [g \in Goroutines |-> FALSE]

\* The steps of a pollAndWrite call by goroutine g, in the whole process.
PollStep(g) ==
    \/ FetchPage(g, FewAlertResponses, FewTimes)
    \/ FetchMCDQuery(g, FewGeoResponses)
    \/ FetchMCDFeature(g, FewTextResponses)
    \/ BuildPayload(g, FewTimes)
    \/ OpenTmp(g)
    \/ WriteTmp(g)
    \/ RenameTmp(g)

\* The steps of the main goroutine.
MainStep ==
    \/ GenFetch(FewWarningResponses) \/ GenOpenJSON(FewTimes) \/ GenWriteJSON \/ GenOpenHTML \/ GenWriteHTML
    \/ StartPollerCall \/ PollStep("main") \/ SpawnPoller \/ StartPollerReturn
    \/ Tick

\* The steps of the goroutine StartPoller launched.
BgStep == SleepElapses \/ BgWake \/ PollStep("bg") \/ BgLoop

Next == MainStep \/ BgStep

Spec == Init /\ [][Next]_vars

\* ------------------------------------------------- one cycle, in isolation
\* StartPoller's first pollAndWrite, from its entry to its return, with every
\* answer the alert feed can give and a few of the discussions'.  It begins
\* where the whole process is when runWatchMode has called StartPoller: the
\* first page has been generated.
InitCycle ==
    /\ now \in Times
    /\ outputFile = DefaultOutputFile
    /\ watchMode = TRUE
    /\ files = [p \in Paths |->
                 IF p = DefaultOutputFile
                 THEN FileOf(RenderHTML(MakeSlice(<<PageWarning>>)))
                 ELSE IF p = HtmlJsonPath(DefaultOutputFile)
                 THEN FileOf(MarshalWarningsJSON(MakeSlice(<<PageWarning>>), now, now))
                 ELSE NoFile]
    /\ mainpc = "poll"
    /\ genWarnings = NilSlice
    /\ genData = <<>>
    /\ bgStarted = FALSE
    /\ pw = [g \in Goroutines |-> IF g = "main" THEN EnterPoll ELSE IdleLocals]
    /\ log = [g \in Goroutines |-> <<>>]
    /\ reqs = [g \in Goroutines |-> 0]
    /\ entry = [g \in Goroutines |-> IF g = "main" THEN files[JsonPath(outputFile)] ELSE NoFile]
    /\ everFailed = FALSE
    /\ mcdLog = [g \in Goroutines |-> NoMCDLog]
    /\ served = <<>>
    /\ rawText = <<>>
    /\ parsed = NotParsed
    /\ entryTmp = [g \in Goroutines |-> FALSE]

NextCycle ==
    \/ FetchPage("main", AlertResponses, Times)
    \/ FetchMCDQuery("main", FewGeoResponses)
    \/ FetchMCDFeature("main", FewTextResponses)
    \/ BuildPayload("main", Times)
    \/ OpenTmp("main")
    \/ WriteTmp("main")
    \/ RenameTmp("main")

SpecCycle == InitCycle /\ [][NextCycle]_vars

\* The goroutine keeps running: a call that can take a step takes one.
FairSpecCycle == SpecCycle /\ WF_vars(NextCycle)

\* ------------------------------------------ the discussions, in isolation
\* The first pollAndWrite from the return of fetchAllAlerts on, with more
\* answers of the MapServer and every answer of the text pages.
FirstPages ==
    { r \in AlertOKs : NextURL(r.pagination) = "" /\ ~r.pagination.present
                        /\ r.features \in { <<>>, <<Tor, Svr, Exe>>, <<Exe>> } }

InitDiscussions ==
    /\ now \in Times
    /\ outputFile = DefaultOutputFile
    /\ watchMode = TRUE
    /\ files = [p \in Paths |->
                 IF p = DefaultOutputFile
                 THEN FileOf(RenderHTML(MakeSlice(<<PageWarning>>)))
                 ELSE IF p = HtmlJsonPath(DefaultOutputFile)
                 THEN FileOf(MarshalWarningsJSON(MakeSlice(<<PageWarning>>), now, now))
                 ELSE NoFile]
    /\ mainpc = "poll"
    /\ genWarnings = NilSlice
    /\ genData = <<>>
    /\ bgStarted = FALSE
    /\ \E r \in FirstPages :
          /\ pw = [g \in Goroutines |->
                     IF g = "main" THEN OnAlertPage(EnterPoll, r, now) ELSE IdleLocals]
          /\ log = [g \in Goroutines |->
                      IF g = "main" THEN << [url |-> nwsAlertsURL, resp |-> r, at |-> now] >>
                      ELSE <<>>]
    /\ reqs = [g \in Goroutines |-> IF g = "main" THEN 1 ELSE 0]
    /\ entry = [g \in Goroutines |-> IF g = "main" THEN files[JsonPath(outputFile)] ELSE NoFile]
    /\ everFailed = FALSE
    /\ mcdLog = [g \in Goroutines |-> NoMCDLog]
    /\ served = <<>>
    /\ rawText = <<>>
    /\ parsed = NotParsed
    /\ entryTmp = [g \in Goroutines |-> FALSE]

NextDiscussions ==
    \/ FetchMCDQuery("main", MoreGeoResponses)
    \/ FetchMCDFeature("main", TextResponses)
    \/ BuildPayload("main", Times)
    \/ OpenTmp("main")
    \/ WriteTmp("main")
    \/ RenameTmp("main")

SpecDiscussions == InitDiscussions /\ [][NextDiscussions]_vars

\* ------------------------------------------- the text extractor, on its own
\* The page holds a discussion whose fullText is any text; it parses it once.
InitParse ==
    /\ now = 0
    /\ outputFile = DefaultOutputFile
    /\ watchMode = TRUE
    /\ files = [p \in Paths |-> NoFile]
    /\ mainpc = "gen_fetch"
    /\ genWarnings = NilSlice
    /\ genData = <<>>
    /\ bgStarted = FALSE
    /\ pw = [g \in Goroutines |-> IdleLocals]
    /\ log = [g \in Goroutines |-> <<>>]
    /\ reqs = [g \in Goroutines |-> 0]
    /\ entry = [g \in Goroutines |-> NoFile]
    /\ everFailed = FALSE
    /\ mcdLog = [g \in Goroutines |-> NoMCDLog]
    /\ served = <<>>
    /\ rawText \in Texts
    /\ parsed = NotParsed
    /\ entryTmp = [g \in Goroutines |-> FALSE]

NextParse == ParseMCD

SpecParse == InitParse /\ [][NextParse]_vars

\* ------------------------------------------------ FetchWarnings, on its own
\* The first generateWarningsHTML of the process, with every answer of the
\* feed, up to the return of FetchWarnings.
InitFetch ==
    /\ now = 0
    /\ outputFile = DefaultOutputFile
    /\ watchMode \in BOOLEAN
    /\ files = [p \in Paths |-> NoFile]
    /\ mainpc = "gen_fetch"
    /\ genWarnings = NilSlice
    /\ genData = <<>>
    /\ bgStarted = FALSE
    /\ pw = [g \in Goroutines |-> IdleLocals]
    /\ log = [g \in Goroutines |-> <<>>]
    /\ reqs = [g \in Goroutines |-> 0]
    /\ entry = [g \in Goroutines |-> NoFile]
    /\ everFailed = FALSE
    /\ mcdLog = [g \in Goroutines |-> NoMCDLog]
    /\ served = <<>>
    /\ rawText = <<>>
    /\ parsed = NotParsed
    /\ entryTmp = [g \in Goroutines |-> FALSE]

NextFetch == GenFetch(WarningResponses)

SpecFetch == InitFetch /\ [][NextFetch]_vars

\* ============================================================== properties
\* The published snapshot path and its temp path.
Target == JsonPath(outputFile)

Temp == TmpPath(JsonPath(outputFile))

\* The keys of a serialized PolledPayload.
PayloadKeys == {"warnings", "mesoscaleDiscussions", "lastUpdated", "counter", "updatedAtUTC"}

\* b is a complete serialized snapshot.
IsSnapshot(b) == IsDocument(b) /\ \A k \in PayloadKeys : Field(b, k) # <<"missing">>

\* fetchAllAlerts has returned its alerts to the call of goroutine g.
PastFetch(g) ==
    \/ pw[g].pc \in {"mcd", "mcdloop", "build", "open", "write", "rename"}
    \/ pw[g].pc = "returned" /\ pw[g].err # "fetch failed"

\* The snapshot of the call of goroutine g has been serialized.
Serialized(g) ==
    \/ pw[g].pc \in {"open", "write", "rename"}
    \/ pw[g].pc = "returned" /\ pw[g].err \in {"none", "write tmp failed", "rename failed"}

\* The log holds every request of the running cycle.
LogComplete(g) == reqs[g] <= MaxPages

\* The features the logged pages served, each with the clock reading its
\* page was processed at, in the order served.
RECURSIVE TimedFeatures(_)
TimedFeatures(lg) ==
    IF lg = <<>> THEN <<>>
    ELSE [i \in 1..Len(Head(lg).resp.features) |->
             [f |-> Head(lg).resp.features[i], at |-> Head(lg).at]]
         \o TimedFeatures(Tail(lg))

\* The alert the output holds for feature f.
AlertOf(f) ==
    [id |-> f.id, type |-> f.event, severity |-> f.severity, expiresTime |-> f.expires,
     ugc |-> IF f.geocode.present /\ f.geocode.UGC[1] = "array"
             THEN MakeSlice(f.geocode.UGC[2]) ELSE EmptySlice,
     same |-> IF f.geocode.present /\ f.geocode.SAME[1] = "array"
              THEN MakeSlice(f.geocode.SAME[2]) ELSE EmptySlice,
     geometry |-> f.geometry]

\* The retention rule: status "Actual", and the expiry not (present,
\* parseable and before the clock reading of its page).
Retained(x) ==
    /\ x.f.status = "Actual"
    /\ ~(/\ x.f.expires # ""
         /\ ParseRFC3339(x.f.expires).ok
         /\ ParseRFC3339(x.f.expires).t < x.at)

ExpectedAlerts(lg) ==
    LET kept == SelectSeq(TimedFeatures(lg), Retained)
    IN  [i \in 1..Len(kept) |-> AlertOf(kept[i].f)]

\* The clock reading of the cycle's fetch: the one its first page was processed at.
FetchTime(g) == log[g][1].at

C3_DiscussionFailureIsNotFatal ==
    \A g \in Goroutines :
        pw[g].mcdErr =>
            /\ PastFetch(g) /\ pw[g].pc # "mcd" /\ pw[g].pc # "mcdloop"
            /\ pw[g].pc = "build" => pw[g].err = "none"
            /\ (Serialized(g) /\ LogComplete(g)) =>
                  /\ Field(pw[g].data, "mesoscaleDiscussions") = <<"array", <<>>>>
                  /\ Field(pw[g].data, "warnings") = JsonWarnings(MakeSlice(ExpectedAlerts(log[g])))
                  /\ Field(pw[g].data, "counter") = <<"number", Len(ExpectedAlerts(log[g]))>>
            /\ (pw[g].pc = "returned" /\ pw[g].err = "none") =>
                  files[Target] = FileOf(pw[g].data)

C3_Witness ==
    /\ pw["main"].mcdErr
    /\ pw["main"].pc = "returned" /\ pw["main"].err = "none"
    /\ LogComplete("main")
    /\ Len(ExpectedAlerts(log["main"])) > 0

\* C4, as stated: every alert of the output has an expiresTime that is empty
\* or parses to a time at or after the cycle's fetch time.
C4_ExpiresEmptyOrFuture ==
    \A g \in Goroutines :
        PastFetch(g) =>
            \A i \in 1..Len(pw[g].warnings.elems) :
                LET e == pw[g].warnings.elems[i].expiresTime
                IN  \/ e = ""
                    \/ ParseRFC3339(e).ok /\ ParseRFC3339(e).t >= FetchTime(g)

\* C4, amended: every alert of the output has an expiresTime that is empty,
\* or does not parse as an RFC 3339 time, or parses to a time at or after the
\* cycle's fetch time.
C4_ExpiresEmptyUnparseableOrFuture ==
    \A g \in Goroutines :
        PastFetch(g) =>
            \A i \in 1..Len(pw[g].warnings.elems) :
                LET e == pw[g].warnings.elems[i].expiresTime
                IN  \/ e = ""
                    \/ ~ParseRFC3339(e).ok
                    \/ ParseRFC3339(e).t >= FetchTime(g)

C4_Witness ==
    /\ PastFetch("main")
    /\ FetchTime("main") > 0
    /\ \E i \in 1..Len(pw["main"].warnings.elems) :
          pw["main"].warnings.elems[i].expiresTime = Sws.expires
    /\ \E i \in 1..Len(pw["main"].warnings.elems) :
          pw["main"].warnings.elems[i].expiresTime = Tor.expires

\* The pages of the scenario: one Actual unexpired alert, one Actual expired
\* alert and one alert with status "Exercise", and nothing else.
IsScenario(lg) ==
    /\ Len(TimedFeatures(lg)) = 3
    /\ { TimedFeatures(lg)[i].f : i \in 1..3 } = {Tor, Svr, Exe}
    /\ \A i \in 1..3 :
          TimedFeatures(lg)[i].f = Svr => ParseRFC3339(Svr.expires).t < TimedFeatures(lg)[i].at
    /\ \A i \in 1..3 :
          TimedFeatures(lg)[i].f = Tor => ParseRFC3339(Tor.expires).t >= TimedFeatures(lg)[i].at

\* C5: fetchAllAlerts returns exactly the features that are Actual and not
\* (expiry present, parseable and past), whatever their type or severity; in
\* the scenario the output is the one unexpired Actual alert and counter is 1.
C5_RetainsExactlyActualUnexpired ==
    \A g \in Goroutines :
        (PastFetch(g) /\ LogComplete(g)) =>
            /\ pw[g].warnings = MakeSlice(ExpectedAlerts(log[g]))
            /\ IsScenario(log[g]) =>
                  /\ pw[g].warnings.elems = <<AlertOf(Tor)>>
                  /\ Serialized(g) => Field(pw[g].data, "counter") = <<"number", 1>>

C5_Witness ==
    /\ IsScenario(log["main"])
    /\ LogComplete("main")
    /\ pw["main"].pc = "open"

\* C6: a retrieval that ended after N pages issued N requests, the first to
\* the feed's URL and each later one to the next link of the page before;
\* every page but the last had a next link, the last had none; and the
\* alerts returned are those of page 1, then those of page 2, and so on,
\* each page's in its own order.
RECURSIVE PagesInOrder(_)
PagesInOrder(lg) ==
    IF lg = <<>> THEN <<>>
    ELSE ProcessFeatures(NilSlice, Head(lg).resp.features, Head(lg).at).elems
         \o PagesInOrder(Tail(lg))

C6_OneRequestPerPageInOrder ==
    \A g \in Goroutines :
        (PastFetch(g) /\ LogComplete(g)) =>
            /\ reqs[g] = Len(log[g])
            /\ log[g][1].url = nwsAlertsURL
            /\ \A i \in 1..(Len(log[g]) - 1) :
                  /\ log[g][i].resp.pagination.present
                  /\ log[g][i].resp.pagination.next # ""
                  /\ log[g][i + 1].url = log[g][i].resp.pagination.next
            /\ LET last == log[g][Len(log[g])].resp.pagination
               IN  ~last.present \/ last.next = ""
            /\ \A i \in 1..Len(log[g]) : log[g][i].resp.kind = "ok"
            /\ pw[g].warnings.elems = PagesInOrder(log[g])

C6_Witness ==
    /\ PastFetch("main")
    /\ reqs["main"] = 2
    /\ log["main"][1].resp.features = <<Sws, Nox>>
    /\ log["main"][2].resp.features = <<Tor, Svr, Exe>>
    /\ Len(pw["main"].warnings.elems) = 3

\* C7: the cycle that was started returns.
C7_CycleFinishes == <>(pw["main"].pc = "returned")

\* C8: whatever the cycles returned, the poller goroutine can take a step:
\* after a return it goes back to sleep, after the sleep it polls again; the
\* process has not ended.
C8_PollerNeverStops ==
    bgStarted =>
        /\ mainpc # "exited"
        /\ ENABLED BgStep
        /\ pw["bg"].pc = "returned" => ENABLED BgLoop
        /\ pw["bg"].pc = "sleep" => (ENABLED SleepElapses \/ ENABLED BgWake)

C8_Witness ==
    /\ everFailed
    /\ pw["bg"].pc = "returned" /\ pw["bg"].err = "none"
    /\ files[Target] = FileOf(pw["bg"].data)

\* C9: no two calls of pollAndWrite are in progress at once, and the
\* goroutine exists only once the first call has returned.
C9_CyclesNeverOverlap ==
    /\ ~(InProgress(pw["main"]) /\ InProgress(pw["bg"]))
    /\ bgStarted => ~InProgress(pw["main"])
    /\ InProgress(pw["bg"]) => bgStarted

C9_Witness ==
    /\ pw["bg"].pc = "rename"
    /\ mainpc = "gen_json_write"

ReturnsError(g, e) ==
    /\ pw[g].pc \in {"open", "write", "rename"}
    /\ pw'[g].pc = "returned"
    /\ pw'[g].err = e

\* C12: a rename that fails after the temp file was written returns an error,
\* leaves the target file as it was and the temp file in place with the
\* snapshot in it; a temp write that fails returns an error straight from the
\* write, leaves the target file as it was, and the target is not renamed to.
C12_PersistErrorKeepsTarget ==
    [][ \A g \in Goroutines :
          /\ ReturnsError(g, "rename failed") =>
                /\ pw[g].pc = "rename"
                /\ files'[Target] = files[Target]
                /\ files'[Temp] = FileOf(pw[g].data)
          /\ ReturnsError(g, "write tmp failed") =>
                /\ pw[g].pc \in {"open", "write"}
                /\ files'[Target] = files[Target]
          /\ (pw[g].pc \in {"open", "write", "rename"} /\ files'[Target] # files[Target]
                 /\ pw'[g] # pw[g]) =>
                /\ pw[g].pc = "rename"
                /\ pw'[g].err = "none"
                /\ files'[Target] = FileOf(pw[g].data) ]_vars

C12_Witness ==
    /\ pw["bg"].pc = "returned" /\ pw["bg"].err = "rename failed"
    /\ files[Temp] = FileOf(pw["bg"].data)
    /\ files[Target].exists
    /\ files[Target] # files[Temp]

\* fetchMesoscaleDiscussions has returned to the call of goroutine g.
PastDiscussions(g) ==
    \/ pw[g].pc \in {"build", "open", "write", "rename"}
    \/ pw[g].pc = "returned" /\ pw[g].err # "fetch failed"

Digits == {"0", "1", "2", "3", "4", "5", "6", "7", "8", "9"}

IsDigit(c) == c \in Digits

\* The name with every character that is not a digit removed.
DigitsOf(name) == SelectSeq(name, IsDigit)

\* C13: the id of every discussion of the output is built from the digits of
\* its name, all other characters removed, and no discussion of the output
\* has a name without a digit.
C13_NumberIsDigitsOfName ==
    \A g \in Goroutines :
        PastDiscussions(g) =>
            \A i \in 1..Len(pw[g].mCDs.elems) :
                LET d == pw[g].mCDs.elems[i]
                IN  /\ DigitsOf(d.name) # <<>>
                    /\ d.id = <<"M", "C", "D", " ">> \o DigitsOf(d.name)

\* The discussion emitted for feature f when its text page answered x: the
\* fields of f, and the text of the page, empty when the request failed.
DiscussionOf(f, x) ==
    [id |-> <<"M", "C", "D", " ">> \o TrimPrefixMD(f.name), name |-> f.name,
     fullText |-> IF x.kind # "ok" THEN <<>> ELSE FetchMCDText(x).text,
     popupInfo |-> f.popupInfo, fileDate |-> f.fileDate, geometry |-> f.geometry]

\* One discussion per feature a text page was asked for, in order; each
\* depends on its own feature and its own answer only.
RECURSIVE ExpectedDiscussions(_, _)
ExpectedDiscussions(features, answers) ==
    IF features = <<>> \/ answers = <<>> THEN <<>>
    ELSE (IF Head(answers) = NotAsked THEN <<>>
          ELSE << DiscussionOf(Head(features), Head(answers)) >>)
         \o ExpectedDiscussions(Tail(features), Tail(answers))

\* C14: a text page that fails does not fail the retrieval: its discussion is
\* emitted with an empty fullText and every other field of its feature, the
\* other discussions are what their own pages make them, the cycle goes on
\* to serialize exactly these discussions and, when the writes succeed,
\* publishes them.  With the one feature "MD 0091" and its page not found
\* the output is the one discussion "MCD 0091" with an empty fullText.
C14_TextFailureKeepsDiscussion ==
    \A g \in Goroutines :
        (PastDiscussions(g) /\ ~pw[g].mcdErr) =>
            /\ Len(mcdLog[g].answers) = Len(mcdLog[g].features)
            /\ pw[g].mCDs =
                  MakeSlice(ExpectedDiscussions(mcdLog[g].features, mcdLog[g].answers))
            /\ pw[g].pc = "build" => pw[g].err = "none"
            /\ Serialized(g) =>
                  Field(pw[g].data, "mesoscaleDiscussions") = <<"array", pw[g].mCDs.elems>>
            /\ (pw[g].pc = "returned" /\ pw[g].err = "none") =>
                  files[Target] = FileOf(pw[g].data)
            /\ (mcdLog[g].features = <<MD91>> /\ mcdLog[g].answers[1].kind = "status") =>
                  pw[g].mCDs.elems =
                     << [id |-> <<"M", "C", "D", " ", "0", "0", "9", "1">>,
                         name |-> MD91.name, fullText |-> <<>>,
                         popupInfo |-> MD91.popupInfo, fileDate |-> MD91.fileDate,
                         geometry |-> MD91.geometry] >>

C14_Witness ==
    /\ mcdLog["main"].features = <<MD91, MD92>>
    /\ Len(mcdLog["main"].answers) = 2
    /\ mcdLog["main"].answers[1].kind = "transport"
    /\ mcdLog["main"].answers[2].body = PreBody
    /\ pw["main"].pc = "returned" /\ pw["main"].err = "none"
    /\ Len(pw["main"].mCDs.elems) = 2
    /\ pw["main"].mCDs.elems[1].fullText = <<>>
    /\ pw["main"].mCDs.elems[2].fullText # <<>>

\* The alerts of the serialized snapshot of goroutine g's call.
SerializedAlerts(g) == Field(pw[g].data, "warnings")[2]

\* C15: every alert fetchAllAlerts returned has ugc and same slices that are
\* not nil, and every alert of the serialized snapshot has ugc and same
\* arrays, whether upstream sent lists, null, or no geocode at all.
C15_UgcAndSameAreArrays ==
    \A g \in Goroutines :
        /\ PastFetch(g) =>
              \A i \in 1..Len(pw[g].warnings.elems) :
                  /\ ~pw[g].warnings.elems[i].ugc.isnil
                  /\ ~pw[g].warnings.elems[i].same.isnil
        /\ Serialized(g) =>
              /\ Field(pw[g].data, "warnings")[1] = "array"
              /\ \A i \in 1..Len(SerializedAlerts(g)) :
                    /\ SerializedAlerts(g)[i].ugc[1] = "array"
                    /\ SerializedAlerts(g)[i].same[1] = "array"

C15_Witness ==
    /\ Serialized("main")
    /\ Len(SerializedAlerts("main")) = 3
    /\ \E i \in 1..3 : SerializedAlerts("main")[i].id = Nox.id
    /\ \E i \in 1..3 : SerializedAlerts("main")[i].id = Sws.id
    /\ \E i \in 1..3 : /\ SerializedAlerts("main")[i].id = Tor.id
                       /\ SerializedAlerts("main")[i].ugc = <<"array", <<"TXC001">>>>

\* C16: every alert of the serialized snapshot has a geometry that is a
\* collection, never null, alerts delivered without geometry included.
C16_GeometryNeverNull ==
    \A g \in Goroutines :
        Serialized(g) =>
            \A i \in 1..Len(SerializedAlerts(g)) :
                SerializedAlerts(g)[i].geometry[1] # "null"

\* A call of pollAndWrite by goroutine g begins in this step.
StartsCycle(g) == ~InProgress(pw[g]) /\ InProgress(pw'[g])

\* C17: the first cycle begins in the step StartPoller is called, before any
\* goroutine or wait exists; every later cycle begins from a wait whose
\* interval has elapsed; a wait begins only in a step in which a cycle has
\* returned (the launch of the goroutine after the first cycle, or the loop
\* after a later one); and a wait ends only by its interval elapsing.
C17_WaitAfterEachCycle ==
    [][ /\ StartsCycle("main") => (mainpc = "start_poller" /\ ~bgStarted)
        /\ StartsCycle("bg") => (pw["bg"].pc = "sleep" /\ pw["bg"].timer = "fired")
        /\ (pw'["bg"].timer = "running" /\ pw["bg"].timer # "running") =>
              \/ pw["bg"].pc = "returned"
              \/ ~bgStarted /\ pw["main"].pc = "returned"
        /\ (pw'["bg"].timer = "fired" /\ pw["bg"].timer # "fired") =>
              (pw["bg"].pc = "sleep" /\ pw["bg"].timer = "running")
        /\ \A g \in Goroutines : InProgress(pw'[g]) => pw'[g].timer = "none" ]_vars

C17_Witness ==
    /\ everFailed
    /\ InProgress(pw["bg"])
    /\ pw["bg"].timer = "none"

\* The positions a call can go to from position pc, in one step.
PhaseSuccessors(pc) ==
    CASE pc = "alerts"  -> {"alerts", "mcd", "returned"}
      [] pc = "mcd"     -> {"mcdloop", "build"}
      [] pc = "mcdloop" -> {"mcdloop", "build"}
      [] pc = "build"   -> {"open"}
      [] pc = "open"    -> {"write", "returned"}
      [] pc = "write"   -> {"rename", "returned"}
      [] pc = "rename"  -> {"returned"}
      [] OTHER          -> {"idle", "sleep", "alerts"}

\* C18: a call goes through fetching (alerts, then discussions), merging and
\* writing in that order.  When the snapshot is assembled both retrievals
\* have finished; when the temp file is opened or written the snapshot is
\* serialized; when the rename is due the temp file holds the whole
\* snapshot; and from the opening of the temp file on no request is issued.
C18_PhasesInOrder ==
    [][ \A g \in Goroutines :
          /\ pw'[g].pc # pw[g].pc => pw'[g].pc \in PhaseSuccessors(pw[g].pc)
          /\ pw[g].pc = "build" =>
                /\ pw[g].url = "" /\ reqs[g] >= 1 /\ ~pw[g].warnings.isnil
                /\ pw[g].geo = <<>> /\ ~pw[g].mCDs.isnil
                /\ Len(mcdLog[g].answers) = Len(mcdLog[g].features)
                /\ pw[g].data = <<>>
          /\ pw[g].pc \in {"open", "write", "rename"} =>
                /\ IsSnapshot(pw[g].data)
                /\ Field(pw[g].data, "warnings") = JsonWarnings(pw[g].warnings)
                /\ Field(pw[g].data, "mesoscaleDiscussions") = JsonSlice(pw[g].mCDs)
                /\ reqs'[g] = reqs[g] /\ log'[g] = log[g] /\ mcdLog'[g] = mcdLog[g]
          /\ pw[g].pc = "rename" => files[Temp] = FileOf(pw[g].data)
          /\ (files'[Temp] # files[Temp] /\ pw'[g] # pw[g]) =>
                pw[g].pc \in {"open", "write", "rename"} ]_vars

C18_Witness ==
    /\ pw["bg"].pc = "rename"
    /\ reqs["bg"] = 2
    /\ Len(mcdLog["bg"].answers) = 1
    /\ files[Temp] = FileOf(pw["bg"].data)

\* C19: in every serialized snapshot, and so in every published one, counter
\* is the number of entries of warnings, which is the number of alerts
\* retrieved, whatever the number of discussions.
C19_CounterIsAlertCount ==
    \A g \in Goroutines :
        Serialized(g) =>
            /\ Field(pw[g].data, "counter") =
                   <<"number", Len(Field(pw[g].data, "warnings")[2])>>
            /\ LogComplete(g) =>
                   Field(pw[g].data, "counter") = <<"number", Len(ExpectedAlerts(log[g]))>>
            /\ (pw[g].pc = "returned" /\ pw[g].err = "none") =>
                   Field(files[Target].bytes, "counter") =
                       <<"number", Len(Field(files[Target].bytes, "warnings")[2])>>

C19_Witness ==
    /\ pw["main"].pc = "returned" /\ pw["main"].err = "none"
    /\ Field(files[Target].bytes, "counter") = <<"number", 1>>
    /\ Len(Field(files[Target].bytes, "mesoscaleDiscussions")[2]) = 2

\* The call of goroutine g publishes in this step.
Publishes(g) ==
    /\ pw[g].pc = "rename"
    /\ pw'[g].pc = "returned"
    /\ pw'[g].err = "none"

\* C20: the step that ends a successful cycle leaves in the target file the
\* snapshot serialized in that cycle, whose alerts are exactly those kept
\* from that cycle's pages and whose discussions are exactly those built
\* from that cycle's features: nothing of the file it replaces remains.
C20_SnapshotReplacesWholesale ==
    [][ \A g \in Goroutines :
          Publishes(g) =>
              /\ files'[Target] = FileOf(pw[g].data)
              /\ Len(pw[g].data) = 7
              /\ LogComplete(g) =>
                    Field(files'[Target].bytes, "warnings") =
                        JsonWarnings(MakeSlice(ExpectedAlerts(log[g])))
              /\ Field(files'[Target].bytes, "mesoscaleDiscussions") =
                    <<"array", IF pw[g].mcdErr THEN <<>>
                               ELSE ExpectedDiscussions(mcdLog[g].features,
                                                        mcdLog[g].answers)>> ]_vars

C20_Witness ==
    /\ pw["bg"].pc = "returned" /\ pw["bg"].err = "none"
    /\ IsSnapshot(entry["bg"].bytes)
    /\ Len(Field(entry["bg"].bytes, "mesoscaleDiscussions")[2]) = 1
    /\ Len(Field(entry["bg"].bytes, "warnings")[2]) = 2
    /\ files[Target] = FileOf(pw["bg"].data)
    /\ Field(files[Target].bytes, "mesoscaleDiscussions") = <<"array", <<>>>>
    /\ Len(Field(files[Target].bytes, "warnings")[2]) = 1

\* The positions of the features a text page is asked for.
KeptPositions(fs) == { k \in 1..Len(fs) : Asked(fs[k]) }

\* C21: the discussions of a cycle's output are the kept features of the
\* MapServer answer in the answer's own order, whatever the text pages
\* answered: discussion i comes from a feature that stands before the
\* feature of discussion i + 1, and every kept feature has its discussion.
C21_OutputInFeatureOrder ==
    \A g \in Goroutines :
        (PastDiscussions(g) /\ ~pw[g].mcdErr) =>
            LET out == pw[g].mCDs.elems
                fs  == mcdLog[g].features
            IN  /\ Len(out) = Cardinality(KeptPositions(fs))
                /\ \E pos \in [1..Len(out) -> KeptPositions(fs)] :
                      /\ \A i \in 1..Len(out) :
                            /\ out[i].name = fs[pos[i]].name
                            /\ out[i].fileDate = fs[pos[i]].fileDate
                      /\ \A i, j \in 1..Len(out) : i < j => pos[i] < pos[j]

C21_Witness ==
    /\ mcdLog["main"].features = <<MD92, MDNoGeometry, MD91>>
    /\ Len(mcdLog["main"].answers) = 3
    /\ mcdLog["main"].answers[1].body = PreBody
    /\ mcdLog["main"].answers[3].kind = "status"
    /\ pw["main"].pc = "returned" /\ pw["main"].err = "none"
    /\ Len(pw["main"].mCDs.elems) = 2
    /\ pw["main"].mCDs.elems[1].name = MD92.name
    /\ pw["main"].mCDs.elems[2].name = MD91.name

\* An array without elements, as a reader decodes it.
JsonEmptyArray == <<"array", <<>>>>

\* C22: in the snapshot a cycle serializes and publishes, warnings and
\* mesoscaleDiscussions are both arrays, never null and never missing; with
\* no alert retained warnings is the empty array, and with a MapServer
\* answer that has no kept feature (or a failed query) mesoscaleDiscussions
\* is the empty array.
C22_BothAreArrays ==
    \A g \in Goroutines :
        Serialized(g) =>
            /\ Field(pw[g].data, "warnings")[1] = "array"
            /\ Field(pw[g].data, "mesoscaleDiscussions")[1] = "array"
            /\ SelectSeq(TimedFeatures(log[g]), Retained) = <<>> =>
                  Field(pw[g].data, "warnings") = JsonEmptyArray
            /\ (pw[g].mcdErr \/ KeptPositions(mcdLog[g].features) = {}) =>
                  Field(pw[g].data, "mesoscaleDiscussions") = JsonEmptyArray
            /\ (pw[g].pc = "returned" /\ pw[g].err = "none") =>
                  files[Target] = FileOf(pw[g].data)

C22_Witness ==
    /\ pw["main"].pc = "returned" /\ pw["main"].err = "none"
    /\ log["main"][1].resp.features = <<Exe>>
    /\ ~pw["main"].mcdErr
    /\ mcdLog["main"].features = <<MDNoGeometry>>
    /\ Field(files[Target].bytes, "warnings") = JsonEmptyArray
    /\ Field(files[Target].bytes, "mesoscaleDiscussions") = JsonEmptyArray

\* The labels the extractor looks for.
Labels == { AREA_AFFECTED, CONCERNING, VALID, SUMMARY, DISCUSSION,
            PROBABILITY_OF_WATCH_ISSUANCE }

\* Some label of t is followed by an ellipsis.
HasLabelWithEllipsis(t) ==
    \E label \in Labels : \E i \in 1..Len(t) :
        /\ LabelAt(t, i, label)
        /\ i + Len(label) <= Len(t) /\ t[i + Len(label)] = "..."

\* s is the end of t.
IsSuffix(s, t) == Len(s) <= Len(t) /\ SubSeq(t, Len(t) - Len(s) + 1, Len(t)) = s

\* C23: the extractor returns a result for every text, and for a text in
\* which no label is followed by an ellipsis every derived field is empty
\* while the raw text stays in the result.
C23_NoLabelMeansEmptyFields ==
    /\ ~parsed.called => parseMCDText(rawText).called
    /\ (parsed.called /\ ~HasLabelWithEllipsis(rawText)) =>
          /\ parsed.area = <<>> /\ parsed.concerning = <<>> /\ parsed.valid = <<>>
          /\ parsed.summary = <<>> /\ parsed.discussion = <<>>
          /\ parsed.probability = <<>>
          /\ IsSuffix(parsed.raw, rawText)
          /\ rawText # <<>> => parsed.raw # <<>>

\* The place in the output of the discussion of kept feature k.
OutputIndex(fs, k) == Cardinality({ j \in KeptPositions(fs) : j <= k })

\* A text page answered 200 with a body that has no <pre> block.
IsPageWithoutPre(x) ==
    /\ x.kind = "ok"
    /\ \A i \in 1..Len(x.body) : x.body[i] # "<pre>"

\* C24: a text page that answers 200 without a preformatted block makes
\* fetchMCDText return the empty text and no error, and its discussion is in
\* the output with an empty fullText, the same discussion a failed request
\* for that page would have given.
C24_NoPreBlockGivesEmptyText ==
    \A g \in Goroutines :
        (PastDiscussions(g) /\ ~pw[g].mcdErr) =>
            \A k \in KeptPositions(mcdLog[g].features) :
                LET f == mcdLog[g].features[k]
                    x == mcdLog[g].answers[k]
                    d == pw[g].mCDs.elems[OutputIndex(mcdLog[g].features, k)]
                IN  IsPageWithoutPre(x) =>
                       /\ FetchMCDText(x) = [text |-> <<>>, err |-> FALSE]
                       /\ d.fullText = <<>>
                       /\ d = DiscussionOf(f, [kind |-> "status", body |-> <<>>])
                       /\ d.name = f.name /\ d.geometry = f.geometry

C24_Witness ==
    /\ mcdLog["main"].features = <<MD91>>
    /\ mcdLog["main"].answers = << [kind |-> "ok", body |-> NoPreBody] >>
    /\ pw["main"].pc = "returned" /\ pw["main"].err = "none"
    /\ Len(pw["main"].mCDs.elems) = 1
    /\ pw["main"].mCDs.elems[1].fullText = <<>>
    /\ pw["main"].mCDs.elems[1].id = <<"M", "C", "D", " ", "0", "0", "9", "1">>

\* The last logged alert request of goroutine g's cycle failed.
AlertsFailed(g) ==
    /\ LogComplete(g) /\ log[g] # <<>>
    /\ log[g][Len(log[g])].resp.kind # "ok"

\* Goroutine g's cycle has sent a request for the discussions: the MapServer
\* query or a text page.
DiscussionsAsked(g) == mcdLog[g].queried \/ mcdLog[g].answers # <<>>

\* C25: while a cycle retrieves the alerts it has sent no request for the
\* discussions; a request for the discussions comes only after
\* fetchAllAlerts has returned its alerts; and a cycle whose alert retrieval
\* failed ends without any request for the discussions.
C25_AlertsBeforeDiscussions ==
    \A g \in Goroutines :
        /\ pw[g].pc = "alerts" => ~DiscussionsAsked(g)
        /\ DiscussionsAsked(g) => PastFetch(g)
        /\ pw[g].err = "fetch failed" => ~DiscussionsAsked(g)
        /\ AlertsFailed(g) =>
              /\ ~DiscussionsAsked(g)
              /\ pw[g].pc = "returned" /\ pw[g].err = "fetch failed"

C25_Witness ==
    /\ Len(log["main"]) = 2
    /\ log["main"][1].resp.kind = "ok"
    /\ AlertsFailed("main")
    /\ pw["main"].pc = "returned"
    /\ ~DiscussionsAsked("main")

\* The event names a severe thunderstorm or a tornado, in any case.
IsSevereOrTornado(ev) ==
    \/ Contains(ToLower(ev), <<"severe", " ", "thunder", "storm">>)
    \/ Contains(ToLower(ev), <<"tornado">>)

\* The description names "fire", in any case.
NamesFire(desc) == \E i \in 1..Len(desc) : desc[i] \in {"fire", "FIRE", "Fire"}

\* The feature is one FetchWarnings keeps.
KeptByFetchWarnings(f) == ~isFilteredWarning(f.event) /\ ~NamesFire(f.description)

\* C29: FetchWarnings returns the served features whose event type passes
\* isFilteredWarning and whose description does not name "fire", in the
\* order served; an event that names a severe thunderstorm or a tornado
\* passes the type filter although it holds a filtered keyword such as
\* "storm warning", and is dropped all the same when its description names
\* "fire".
C29_FetchWarningsFilters ==
    mainpc = "gen_json_open" =>
        LET kept == SelectSeq(served, KeptByFetchWarnings)
        IN  /\ ~genWarnings.isnil
            /\ Len(genWarnings.elems) = Len(kept)
            /\ \A i \in 1..Len(kept) :
                  /\ genWarnings.elems[i].type = kept[i].event
                  /\ genWarnings.elems[i].description = kept[i].description
                  /\ genWarnings.elems[i] = ToWarning(kept[i])
            /\ \A i \in 1..Len(served) :
                  /\ IsSevereOrTornado(served[i].event) => ~isFilteredWarning(served[i].event)
                  /\ IsSevereOrTornado(served[i].event) =>
                        (KeptByFetchWarnings(served[i]) <=> ~NamesFire(served[i].description))
                  /\ NamesFire(served[i].description) =>
                        \A j \in 1..Len(genWarnings.elems) :
                            genWarnings.elems[j].description # served[i].description

C29_Witness ==
    /\ mainpc = "gen_json_open"
    /\ Len(served) = 2
    /\ served[1].event = <<"Severe", " ", "Thunder", "storm", " ", "Warning">>
    /\ Contains(ToLower(served[1].event), <<"storm", " ", "warning">>)
    /\ served[1].description = <<"FIRE", " ", "danger">>
    /\ served[2].event = <<"Severe", " ", "Thunder", "storm", " ", "Warning">>
    /\ served[2].description = <<"Hail", " ", "expected">>
    /\ genWarnings = MakeSlice(<< ToWarning(served[2]) >>)

\* C28: no discussion of a cycle's output has a null geometry: a feature the
\* MapServer delivers without geometry is dropped, no text page is asked
\* for it, and this although its name gives a number ("MD 0095").
C28_DiscussionsHaveGeometry ==
    \A g \in Goroutines :
        (PastDiscussions(g) /\ ~pw[g].mcdErr) =>
            /\ \A i \in 1..Len(pw[g].mCDs.elems) :
                  /\ ~pw[g].mCDs.elems[i].geometry.isnil
                  /\ JsonGeometry(pw[g].mCDs.elems[i].geometry)[1] = "object"
            /\ \A k \in 1..Len(mcdLog[g].features) :
                  mcdLog[g].features[k].geometry.isnil =>
                     /\ mcdLog[g].answers[k] = NotAsked
                     /\ \A i \in 1..Len(pw[g].mCDs.elems) :
                           pw[g].mCDs.elems[i].name # mcdLog[g].features[k].name

C28_Witness ==
    /\ mcdLog["main"].features = <<MDNoGeometry, MD92>>
    /\ DigitsOf(MDNoGeometry.name) = <<"0", "0", "9", "5">>
    /\ Len(mcdLog["main"].answers) = 2
    /\ mcdLog["main"].answers[1] = NotAsked
    /\ pw["main"].pc = "returned" /\ pw["main"].err = "none"
    /\ Len(pw["main"].mCDs.elems) = 1
    /\ pw["main"].mCDs.elems[1].name = MD92.name

\* The call of goroutine g returns nil in this step.
ReturnsNil(g) ==
    /\ pw[g].pc # "returned"
    /\ pw'[g].pc = "returned"
    /\ pw'[g].err = "none"

\* C27: when pollAndWrite returns nil the temp path does not exist and the
\* target file holds the serialization of the snapshot that call built: its
\* own alerts and discussions, the count of its alerts, all keys, whole.
C27_SuccessLeavesOnlyTarget ==
    [][ \A g \in Goroutines :
          ReturnsNil(g) =>
              /\ ~files'[Temp].exists
              /\ files'[Target].exists
              /\ files'[Target].bytes = pw'[g].data
              /\ IsSnapshot(files'[Target].bytes)
              /\ Field(files'[Target].bytes, "warnings") = JsonWarnings(pw'[g].warnings)
              /\ Field(files'[Target].bytes, "mesoscaleDiscussions") = JsonSlice(pw'[g].mCDs)
              /\ Field(files'[Target].bytes, "counter") =
                    <<"number", Len(pw'[g].warnings.elems)>> ]_vars

C27_Witness ==
    /\ pw["bg"].pc = "returned" /\ pw["bg"].err = "none"
    /\ ~files[Temp].exists
    /\ files[Target] = FileOf(pw["bg"].data)
    /\ IsSnapshot(files[Target].bytes)
    /\ everFailed

\* C26: a temp file left by an earlier cycle does not stand in a later
\* cycle's way.  In a cycle that began with a temp file in place the open
\* can succeed and empties it, the write can succeed and leaves the cycle's
\* own snapshot in it, the rename can succeed, and the step that returns nil
\* leaves that snapshot, whole, in the target file and no temp file.
C26_StaleTempIsOverwritten ==
    [][ \A g \in Goroutines :
          entryTmp[g] =>
              /\ pw[g].pc = "open" => ENABLED (OpenTmp(g) /\ pw'[g].pc = "write")
              /\ (pw[g].pc = "open" /\ pw'[g].pc = "write") => files'[Temp] = FileOf(<<>>)
              /\ (pw[g].pc = "write" /\ pw'[g].pc = "rename") =>
                    files'[Temp] = FileOf(pw[g].data)
              /\ pw[g].pc = "rename" => files[Temp] = FileOf(pw[g].data)
              /\ ReturnsNil(g) =>
                    /\ files'[Target] = FileOf(pw[g].data)
                    /\ IsSnapshot(files'[Target].bytes)
                    /\ ~files'[Temp].exists ]_vars

C26_Witness ==
    /\ entryTmp["bg"]
    /\ pw["bg"].pc = "returned" /\ pw["bg"].err = "none"
    /\ files[Target] = FileOf(pw["bg"].data)
    /\ ~files[Temp].exists
====
